---- MODULE Spec2Model ----
(***************************************************************************)
(* Model of wharf's porting run: run() in main2.go drives pkg2.List and    *)
(* Resolve, Handle.Refresh, Context.Port, Context.pin, Handle.port and     *)
(* Handle.validate.  The Go toolchain (go list, go/types, go list -m -u)   *)
(* is an external oracle: its answers are chosen when the program first    *)
(* needs them and are remembered, so that the same question always gets    *)
(* the same answer.                                                        *)
(***************************************************************************)
EXTENDS Integers, Sequences, FiniteSets, TLC

VARIABLES
    pc,         \* position of run(): "load", "refresh", "port", "done", "error", "panic"
    idx,        \* position inside the refresh loop or the port walk (1-based)
    groups,     \* the level groups of the last Resolve, level 0 (the leaves) first
    pkgs,       \* pkg2.Package fields of every package (the cache of load.go)
    handles,    \* Context.handles
    pins,       \* Context.pins
    work,       \* the replace directives of the workspace file, per module (0: none)
    metaRepl,   \* Meta.Module.Replace as reported by the last go list, per module
    ask,        \* the question of the current step the toolchain has not answered yet
    world,      \* input of the run: the packages the first go list batch reports
    tc,         \* answers go/types has given so far (type-check oracle)
    nb,         \* number of build candidates loadPkg found, per package and version
    upd,        \* answers of go list -m -u so far, per module (0: not asked)
    reloads,    \* history: jumps of run() back to load, by the module pinned
    pinMoves,   \* history: number of times a module's pinTo changed value
    out,        \* the emitted base.Output once run() and the collectors returned
    graph,      \* Package.Imports of every package, as go list reports them
    expr,       \* tags: the operands of a build-constraint operator and its result
    proc,       \* main(): its position, its flags and its locals
    fs          \* main(): the files and directories main() creates and removes

vars == <<pc, idx, groups, pkgs, handles, pins, work, metaRepl, world, ask, tc, nb, upd,
          reloads, pinMoves, out, graph, expr, proc, fs>>

-----------------------------------------------------------------------------
(* Bounds of the model *)

\* Most build candidates the Build-Config Builder yields for one package.
MaxBuilds == 2
\* Module versions are 1..MaxVer; 1 is the version MVS selects.
MaxVer == 2
\* type checks of one run that report errors
MaxFaults == 2
\* Most packages one package imports, in the graphs Resolve is checked on.
MaxImports == 2
\* number of unix GOOS values the build-constraint operators are checked on
MaxUnix == 3
\* most operators above a tag in a build-constraint header
MaxDepth == 1
\* most ModulePin records of an Output main() imports from
MaxPins == 2
\* most PackagePatch records of an Output main() applies
MaxPatches == 2
\* number of packages of one module that run ports
MaxModPkgs == 2
\* most files of one package
MaxFiles == 3
\* most build candidates of a package, and most failing checks, on the chain
MaxChainBuilds == 3
MaxChainFaults == 3

\* jumps of run() back to load, per module, after which a run is cut off
MaxReloads == 3

-----------------------------------------------------------------------------
(* The workspace under port: go list's view of packages and modules *)

Pkgs == {"app", "lib", "xsys", "std"}
NonMainMods == {"example.com/lib", "golang.org/x/sys"}
Mods == {"main"} \cup NonMainMods

\* MetaPackage.Module.Path ("" for the standard library, whose Module is nil)
ModOf(p) ==
    CASE p = "app" -> "main"
      [] p = "lib" -> "example.com/lib"
      [] p = "xsys" -> "golang.org/x/sys"
      [] OTHER -> ""

\* MetaPackage.Goroot / MetaPackage.Standard
Goroot(p) == p = "std"

\* Module.Main
Main(p) == ModOf(p) = "main"

\* Module.Version: the version selected by MVS, whatever the replace directive
ModVersion == 1

\* the import graph of the workspace under port
Workspace ==
    [p \in Pkgs |-> CASE p = "app" -> {"lib", "xsys"}
                     [] p = "lib" -> {"std"}
                     [] p = "xsys" -> {"std"}
                     [] OTHER -> {}]

\* Package.Imports (all files, built or not)
Imports(p) == graph[p]

\* the paths given on the command line
Roots == <<"app">>

\* base.Inlines: import paths for which the inline catalog has an Exports entry
Inlines == {"std"}

IsGolangXPkg(p) == ModOf(p) = "golang.org/x/sys"

IsStdlibPkg(p) == Goroot(p) \/ IsGolangXPkg(p)

-----------------------------------------------------------------------------
(* Values *)

\* A build candidate's content: <<index of the loaded candidate, inline edits>>.
\* The edits are the import paths whose symbols applyExportDirective replaced.
Content(b, e) == <<b, e>>

\* types.Package of a handle: <<module version, content>>; version 0 is nil.
NilView == <<0, Content(0, {})>>

\* The key of one type check: package, version of its source, content checked,
\* typed views handed out by the importer, and types.Config.IgnoreFuncBodies.
NoKey == <<"", 0, Content(0, {}), <<>>, FALSE>>

\* The classified errors of one type check: the resolved packages of the
\* BadImportName errors, the kind of the other errors ("name": TCBadName,
\* "hard": TCBadOther, "soft": TCBadOther with types.Error.Soft), and whether a
\* BadImportName error is reported before the first non-import hard error.
NoErrs == [imps |-> {}, local |-> "none", impFirst |-> TRUE]

LocalKinds == {"none", "name", "hard", "soft"}

ErrSets(p) ==
    IF Goroot(p) THEN {NoErrs}
    ELSE {e \in [imps : SUBSET Imports(p), local : LocalKinds, impFirst : BOOLEAN] :
            e.impFirst \/ (e.imps \cap Inlines # {} /\ e.local \in {"name", "hard"})}

\* zero value of port2.Handle, with reg = FALSE while ctx.handles has no entry
NewHandle ==
    [reg |-> FALSE, types |-> NilView, errs |-> NoKey, buildIdx |-> 0,
     built |-> FALSE, incomplete |-> FALSE, included |-> FALSE,
     exhausted |-> FALSE, patched |-> FALSE, valid |-> FALSE]

\* zero value of versionPin, with set = FALSE while ctx.pins has no entry
NoPin == [set |-> FALSE, version |-> 0, pinTo |-> 0, imported |-> FALSE]

\* zero value of pkg2.Package; dir = 0 stands for Meta == nil.  pkg.Builds is the
\* candidates loadPkg found (their number is nb[p][dir]) followed by derived,
\* the candidates applyExportDirective appended.
NewPackage ==
    [dir |-> 0, derived |-> <<>>, parents |-> {}, included |-> FALSE,
     dirty |-> FALSE, depDirty |-> FALSE, modified |-> FALSE,
     firstLoad |-> FALSE, level |-> 0]

-----------------------------------------------------------------------------
(* pkg2.List and pkg2.Resolve *)

\* Module directory go list reports: the replaced version, else the MVS one
DirOf(w, p) ==
    IF ModOf(p) \in NonMainMods /\ w[ModOf(p)] # 0 THEN w[ModOf(p)] ELSE ModVersion

\* variant of List that leaves DepDirty as the pass before set it
ListPkgKeep(old, dir, incl) ==
    LET firstLoad == old.dir = 0
        doLoad == firstLoad \/ old.dir # dir
    IN [old EXCEPT !.firstLoad = firstLoad,
                   !.dirty = doLoad \/ old.modified,
                   !.dir = dir,
                   !.included = incl,
                   !.modified = FALSE,
                   !.derived = IF doLoad THEN <<>> ELSE old.derived]

\* the fields List sets on one package (load.go 79-86, 111-115)
ListPkg(old, dir, incl) ==
    LET firstLoad == old.dir = 0
        doLoad == firstLoad \/ old.dir # dir
    IN [old EXCEPT !.firstLoad = firstLoad,
                   !.dirty = doLoad \/ old.modified,
                   !.dir = dir,
                   !.included = incl,
                   !.modified = FALSE,
                   !.depDirty = FALSE,
                   !.derived = IF doLoad THEN <<>> ELSE old.derived]

\* Resolve's DFS.  st = [visited, layers, pk, cycle]; visited maps a path to
\* "gray" (on the stack) or "done".  ord fixes the order in which the import
\* map of a package is ranged over.
\* load.go 490: the imports of a package in the order ord ranges over them
RECURSIVE Among(_, _)
Among(ord, imports) ==
    IF ord = <<>> THEN <<>>
    ELSE (IF Head(ord) \in imports THEN <<Head(ord)>> ELSE <<>>) \o Among(Tail(ord), imports)

RECURSIVE visit(_, _, _)
RECURSIVE visitImports(_, _, _, _, _)

\* variants of the DFS: one that takes a package on the stack for a finished
\* one, and one that moves up only past a strictly higher child
DoneOrOnStack(visited, p) == p \in DOMAIN visited
MoveUpStrict(level, seenlevel) == IF seenlevel > level THEN seenlevel + 1 ELSE level

\* load.go 474: done, checked := visited[path]; done
Done(visited, p) == p \in DOMAIN visited /\ visited[p] = "done"

\* load.go 502-505: the level after a child of level seenlevel
MoveUp(level, seenlevel) == IF seenlevel >= level THEN seenlevel + 1 ELSE level

visitImports(p, todo, level, st, ord) ==
    IF todo = <<>> \/ st.cycle THEN [st |-> st, level |-> level]
    ELSE LET q == Head(todo)
             st1 == [st EXCEPT !.pk[q].parents = @ \cup {p}]
             r == visit(q, st1, ord)
         IN IF r.st.cycle THEN [st |-> r.st, level |-> level]
            ELSE LET st2 == [r.st EXCEPT !.pk[p].depDirty =
                                @ \/ r.st.pk[q].depDirty \/ r.st.pk[q].dirty]
                 IN visitImports(p, Tail(todo), MoveUp(level, r.level), st2, ord)

visit(p, st, ord) ==
    IF Done(st.visited, p)
    THEN [st |-> st, level |-> st.pk[p].level]
    ELSE IF p \in DOMAIN st.visited
    THEN [st |-> [st EXCEPT !.cycle = TRUE], level |-> -1]
    ELSE LET st1 == [st EXCEPT !.visited = @ @@ (p :> "gray")]
             todo == Among(ord, Imports(p))
             r == visitImports(p, todo, 0, st1, ord)
         IN IF r.st.cycle THEN [st |-> r.st, level |-> -1]
            ELSE LET lay == r.st.layers
                     grown == lay \o [i \in 1..(r.level + 1 - Len(lay)) |-> <<>>]
                 IN [st |-> [r.st EXCEPT
                                !.layers = [grown EXCEPT ![r.level + 1] = Append(@, p)],
                                !.pk[p].level = r.level,
                                !.visited = [@ EXCEPT ![p] = "done"]],
                     level |-> r.level]

RECURSIVE resolveFrom(_, _, _)
resolveFrom(start, st, ord) ==
    IF start = <<>> \/ st.cycle THEN st
    ELSE resolveFrom(Tail(start), visit(Head(start), st, ord).st, ord)

Resolve(start, pk, ord) ==
    resolveFrom(start, [visited |-> <<>>, layers |-> <<<<>>>>, pk |-> pk, cycle |-> FALSE], ord)

\* the orders in which the import maps are ranged over.  Only the relative
\* order of the imports of one package shows in the layers, so one order is
\* kept for every way of ranging over the import maps.
Perms == {s \in [1..Cardinality(Pkgs) -> Pkgs] : \A p \in Pkgs : \E i \in DOMAIN s : s[i] = p}
Ranges(ord) == [p \in Pkgs |-> Among(ord, Imports(p))]
Orders == {o \in Perms : o = CHOOSE o2 \in Perms : Ranges(o2) = Ranges(o)}

Need(what, key, p) == [what |-> what, key |-> key, p |-> p]
NoNeed == Need("", NoKey, "")
R(k, need, s, x) == [k |-> k, need |-> need, s |-> s, x |-> x]
Ok(s, x) == R("ok", NoNeed, s, x)
Panic(s) == R("panic", NoNeed, s, <<>>)
Ask(what, key, p, s) == R("need", Need(what, key, p), s, <<>>)

\* number of candidates loadPkg found for p's current source (0: not yet read)
Loaded(s, p) == IF IsStdlibPkg(p) THEN 1 ELSE nb[p][s.pk[p].dir]

\* len(pkg.Builds)
BuildsLen(s, p) == Loaded(s, p) + Len(s.pk[p].derived)

\* pkg.Builds[b]
BuildAt(s, p, b) ==
    IF b = 0 \/ b < Loaded(s, p) THEN Content(b, {})
    ELSE s.pk[p].derived[b - Loaded(s, p) + 1]

\* the question one call of Handle.typeCheck puts to go/types
CheckKey(s, p, b, ifb) ==
    <<p, s.pk[p].dir, BuildAt(s, p, b), [q \in Imports(p) |-> s.h[q].types], ifb>>

\* go/types' answer to question key, once it is known: x = [key, typed, errs]
Checked(s, p, key) ==
    IF key \notin DOMAIN tc THEN Ask("tc", key, p, s)
    ELSE Ok(s, [key |-> key, typed |-> <<key[2], key[3]>>, errs |-> tc[key]])

\* Handle.typeCheck (errors.go 99-128)
typeCheck(s, p, b, ifb) ==
    IF b > 0 /\ Loaded(s, p) = 0 THEN Ask("nb", NoKey, p, s)
    ELSE IF b > 0 /\ b >= BuildsLen(s, p) THEN Panic(s)
    ELSE IF \E q \in Imports(p) : ~s.h[q].reg \/ s.h[q].types = NilView THEN Panic(s)
    ELSE Checked(s, p, CheckKey(s, p, b, ifb))

\* handle.errs as a list: empty for a handle never checked
ErrsOf(h) == IF h.errs = NoKey THEN NoErrs ELSE tc[h.errs]

\* len(handle.errs) == 0
NoErrors(e) == e.imps = {} /\ e.local = "none"

\* Handle.MarkExhausted (errors.go 64-66)
MarkExhausted(h) == [h EXCEPT !.exhausted = TRUE]

\* Handle.validate (port.go 357-397): x = TRUE when no parent, checked at its
\* own candidate, reports a BadImportName that resolves to p
RECURSIVE validateFrom(_, _, _)

\* a variant of validate that accepts the candidate whatever a parent reports
validateParentBlind(p, s, rest, t) ==
    IF t.k # "ok" THEN t ELSE validateFrom(p, s, rest)

\* a variant of validate that rejects the candidate on any error of a parent
validateParentStrict(p, s, rest, t) ==
    IF t.k # "ok" THEN t
    ELSE IF ~NoErrors(t.x.errs) THEN Ok(s, FALSE)
    ELSE validateFrom(p, s, rest)

\* port.go 380-392: what the check t of one parent says about p
validateParent(p, s, rest, t) ==
    IF t.k # "ok" THEN t
    ELSE IF p \in t.x.errs.imps THEN Ok(s, FALSE)
    ELSE validateFrom(p, s, rest)

validateNext(p, s, ps, parent) ==
    IF ~s.h[parent].reg THEN Panic(s)
    ELSE validateParent(p, s, ps \ {parent},
                        typeCheck(s, parent, s.h[parent].buildIdx, FALSE))

validateFrom(p, s, ps) ==
    IF ps = {} THEN Ok(s, TRUE)
    ELSE validateNext(p, s, ps, CHOOSE q \in ps : TRUE)

validate(p, s) == validateFrom(p, s, s.pk[p].parents)

\* port.go 205-207, 298-300: the handle takes candidate build and its check c
Select(s, p, build, c) ==
    [s EXCEPT !.h[p].buildIdx = build, !.h[p].types = c.typed, !.h[p].errs = c.key]

\* "satisfied" of the retag loop (port.go 189-202): BadImportName errors are
\* collected, any other error that is not soft rejects the candidate
Satisfied1(e) == e.local \in {"none", "soft"}

\* the retag loop (port.go 183-214): x = [build, imports]
RECURSIVE retagLoop(_, _, _)

\* port.go 209-213: the selected candidate is kept when validate accepts it
retagValidated(p, s1, build, imports, v) ==
    IF v.k # "ok" THEN v
    ELSE IF v.x THEN Ok(s1, [build |-> build, imports |-> imports])
    ELSE retagLoop(p, s1, build + 1)

retagSelected(p, s1, build, imports) ==
    retagValidated(p, s1, build, imports, validate(p, s1))

\* port.go 186-204: one candidate of the retag loop, t its check
retagTry(p, s, build, t) ==
    IF t.k # "ok" THEN t
    ELSE IF ~Satisfied1(t.x.errs) THEN retagLoop(p, s, build + 1)
    ELSE retagSelected(p, Select(s, p, build, t.x), build, t.x.errs.imps)

retagLoop(p, s, build) ==
    IF Loaded(s, p) = 0 THEN Ask("nb", NoKey, p, s)
    ELSE IF build >= BuildsLen(s, p) THEN Ok(s, [build |-> build, imports |-> {}])
    ELSE retagTry(p, s, build, typeCheck(s, p, build, FALSE))

\* the edits one candidate's errors add to fiEdits (port.go 262-294): errors are
\* read up to and including the first one that is not soft, so at most one
\* BadImportName is read; it is recorded when the inline catalog has its symbol
EditsOf(e) ==
    IF e.imps # {} /\ (e.impFirst \/ e.local \in {"none", "soft"})
    THEN {CHOOSE q \in e.imps : TRUE} \cap Inlines
    ELSE {}

\* "satisfied" of the substitution loop (port.go 261-294): every error that is
\* not soft, BadImportName included, rejects the candidate
Satisfied2(e) == e.imps = {} /\ e.local \in {"none", "soft"}

\* the substitution loop (port.go 249-306): x = [build, edits]
RECURSIVE editLoop(_, _, _, _)

\* port.go 302-305
editValidated(p, s1, build, ed, v) ==
    IF v.k # "ok" THEN v
    ELSE IF v.x THEN Ok(s1, [build |-> build, edits |-> ed])
    ELSE editLoop(p, s1, build + 1, ed)

editSelected(p, s1, build, ed) == editValidated(p, s1, build, ed, validate(p, s1))

\* port.go 258-301: one candidate of the substitution loop, t its check
editCollected(p, s, build, ed, t) ==
    IF ~Satisfied2(t.x.errs) THEN editLoop(p, s, build + 1, ed)
    ELSE editSelected(p, Select(s, p, build, t.x), build, ed)

editTry(p, s, build, edits, t) ==
    IF t.k # "ok" THEN t
    ELSE editCollected(p, s, build, edits \cup EditsOf(t.x.errs), t)

editLoop(p, s, build, edits) ==
    IF Loaded(s, p) = 0 THEN Ask("nb", NoKey, p, s)
    ELSE IF build >= BuildsLen(s, p) THEN Ok(s, [build |-> build, edits |-> edits])
    ELSE editTry(p, s, build, edits, typeCheck(s, p, build, FALSE))

\* the candidate applyExportDirective derives from base
Derived(base, edits) == Content(base[1], base[2] \cup edits)

\* Handle.applyExportDirective (port.go 403-477): appends the derived candidate
applyExportDirective(p, s, build, edits) ==
    [s EXCEPT !.pk[p].derived = Append(@, Derived(BuildAt(s, p, build), edits))]

\* the classification of handle.errs at the head of port (port.go 144-167)
ExhaustedImports(s, e) == {q \in e.imps : s.h[q].exhausted}
LiveImports(s, e) == e.imps \ ExhaustedImports(s, e)
NeedTag(s, h, e) == h.incomplete \/ ExhaustedImports(s, e) # {} \/ e.local = "name"
Ill(e) == e.local \in {"hard", "soft"}

\* port.go 169-173: "If we saw no errors, move on"
MoveOn(s, h, e) == ~NeedTag(s, h, e) /\ LiveImports(s, e) = {}

\* port.go 229-232: every import named by a BadImportName is flagged
MarkImports(hs, imports) ==
    [q \in Pkgs |-> IF q \in imports
                    THEN [hs[q] EXCEPT !.incomplete = TRUE, !.included = TRUE]
                    ELSE hs[q]]

\* x of port: TRUE when port returns an error
Patched(p, s) == Ok([s EXCEPT !.h[p].patched = TRUE], FALSE)
Exhaust(p, s) == Ok([s EXCEPT !.h[p] = MarkExhausted(@)], TRUE)

\* port.go 339-352: the derived candidate is accepted when validate accepts it
inlineValidated(p, s2, v) ==
    IF v.k # "ok" THEN v
    ELSE IF v.x THEN Patched(p, s2)
    ELSE Exhaust(p, s2)

inlineSelected(p, s2) == inlineValidated(p, s2, validate(p, s2))

\* port.go 323-337: t is the check of the derived candidate
inlineChecked(p, s1, fiBuild, t) ==
    IF t.k # "ok" THEN t
    ELSE IF ~NoErrors(t.x.errs) THEN Exhaust(p, s1)
    ELSE inlineSelected(p, [s1 EXCEPT !.h[p].types = t.x.typed,
                                      !.h[p].buildIdx = fiBuild])

inlineApplied(p, s1, fiBuild) ==
    inlineChecked(p, s1, fiBuild, typeCheck(s1, p, BuildsLen(s1, p) - 1, FALSE))

\* port.go 315-354: the derived candidate built from the recorded edits
portInline(p, s, fiBuild, edits) ==
    inlineApplied(p, applyExportDirective(p, s, fiBuild, edits), fiBuild)

\* port.go 308-313: r is the outcome of the substitution loop
editDone(p, fiBuild, r) ==
    IF r.k # "ok" THEN r
    ELSE IF r.x.build < BuildsLen(r.s, p) THEN Patched(p, r.s)
    ELSE portInline(p, r.s, fiBuild, r.x.edits)

\* port.go 233-249: the imports are flagged
importsMarked(p, s1, imports) ==
    IF \E q \in imports : s1.h[q].patched THEN Panic(s1)
    ELSE IF \E q \in imports : ~s1.h[q].exhausted THEN Ok(s1, FALSE)
    ELSE editDone(p, s1.h[p].buildIdx, editLoop(p, s1, s1.h[p].buildIdx + 1, {}))

\* port.go 222-313: after the retag phase
portImports(p, s, imports) ==
    IF imports = {} THEN Patched(p, s)
    ELSE IF \E q \in imports : ~s.h[q].reg THEN Panic(s)
    ELSE importsMarked(p, [s EXCEPT !.h = MarkImports(@, imports)], imports)

\* port.go 216-220: r is the outcome of the retag loop
retagDone(p, r) ==
    IF r.k # "ok" THEN r
    ELSE IF r.x.build >= BuildsLen(r.s, p) THEN Exhaust(p, r.s)
    ELSE portImports(p, r.s, r.x.imports)

\* port.go 144-182: h the handle, e its errors, s1 the state once incomplete
\* is cleared
portErrs(p, s, s1, h, e) ==
    IF \E q \in e.imps : ~s.h[q].reg THEN Panic(s)
    ELSE IF MoveOn(s, h, e) THEN Ok([s1 EXCEPT !.h[p].valid = TRUE], FALSE)
    ELSE IF Ill(e) THEN Ok(s1, TRUE)
    ELSE IF NeedTag(s, h, e) THEN retagDone(p, retagLoop(p, s1, h.buildIdx + 1))
    ELSE portImports(p, s1, LiveImports(s, e))

\* Handle.port (port.go 139-355): x = TRUE when it returns an error
port(p, s) ==
    portErrs(p, s, [s EXCEPT !.h[p].incomplete = FALSE], s.h[p], ErrsOf(s.h[p]))

\* variants of the pin coordinator: one that locks a fresh module to the
\* original version and a pinned one to the update, and one that moves the
\* replace and reports a change on every call
PinTargetSwapped(pin, update) == IF ~(pin.pinTo # 0) THEN ModVersion ELSE update
pinAgain(p, s) ==
    Ok([s EXCEPT !.work[ModOf(p)] = IF @ = ModVersion THEN MaxVer ELSE ModVersion], TRUE)

\* versionPin.isPinned
isPinned(pin) == pin.pinTo # 0

\* the guard of Context.pin (port.go 102)
PinGuard(repl, pin) == repl = 0 \/ (isPinned(pin) /\ pin.pinTo # pin.version)

\* the version Context.pin locks the module to (port.go 103-110)
PinTarget(pin, update) == IF ~isPinned(pin) THEN update ELSE ModVersion

\* a variant of the record that loses the original version
PinRecordSame(pinTo) ==
    [set |-> TRUE, version |-> pinTo, pinTo |-> pinTo, imported |-> FALSE]

\* the versionPin Context.pin stores (port.go 124-127)
PinRecord(pinTo) ==
    [set |-> TRUE, version |-> ModVersion, pinTo |-> pinTo, imported |-> FALSE]

\* Context.pin (port.go 94-136): x = changed
pin(p, s) ==
    LET m == ModOf(p)
        old == s.pins[m]
    IN IF ~PinGuard(metaRepl[m], old) THEN Ok(s, FALSE)
       ELSE IF ~isPinned(old) /\ upd[m] = 0 THEN Ask("upd", NoKey, p, s)
       ELSE LET pinTo == PinTarget(old, upd[m])
                oldVer == IF old.pinTo = 0 THEN ModVersion ELSE old.pinTo
            IN Ok([s EXCEPT !.work[m] = pinTo, !.pins[m] = PinRecord(pinTo)],
                  oldVer # pinTo)

\* variants of the clean-handle test and of its marking
CleanNever(h, e) == FALSE
AcceptCleanAlways(h) == [h EXCEPT !.patched = TRUE]

\* port.go 57-62: a handle without errors that no parent flagged
Clean(h, e) == NoErrors(e) /\ ~h.incomplete
AcceptClean(h) == IF h.buildIdx > 0 THEN [h EXCEPT !.patched = TRUE] ELSE h

\* port.go 80-91: the Result of a port that selected or kept a candidate
portRecorded(p, s1) ==
    IF ~s1.h[p].patched THEN Ok(s1, "CONTINUE")
    ELSE IF Main(p) THEN Ok(s1, "PATCHED")
    ELSE Ok([s1 EXCEPT !.pins[ModOf(p)].set = TRUE,
                       !.pins[ModOf(p)].imported = TRUE], "PATCHED")

\* Package.MarkModified: "the Package is marked modified"; Modified
\* (packages.go 68-69) is the field List reads at load.go 82
MarkModified(pkg) == [pkg EXCEPT !.modified = TRUE]

\* port.go 73-79: r is the outcome of port, baseId the candidate before it
portDone(p, baseId, r) ==
    IF r.k # "ok" THEN r
    ELSE IF r.x THEN Ok(r.s, "ERROR")
    ELSE portRecorded(p, IF baseId # r.s.h[p].buildIdx
                         THEN [r.s EXCEPT !.pk[p] = MarkModified(@)] ELSE r.s)

\* port.go 72-91: Port once the pin coordinator reported no change
portAndRecord(p, s) == portDone(p, s.h[p].buildIdx, port(p, s))

\* port.go 64-70: c is the outcome of the pin coordinator
pinDone(p, s0, c) ==
    IF Main(p) THEN portAndRecord(p, s0)
    ELSE IF c.k # "ok" THEN c
    ELSE IF c.x THEN Ok(c.s, "RELOAD")
    ELSE portAndRecord(p, c.s)

\* port.go 57-70: h0 is the handle once its first check is recorded
portBuilt(p, s, s0, h0) ==
    IF h0.errs # NoKey /\ h0.errs \notin DOMAIN tc THEN Ask("tc", h0.errs, p, s)
    ELSE IF Clean(h0, ErrsOf(h0)) THEN Ok([s0 EXCEPT !.h[p] = AcceptClean(@)], "CONTINUE")
    ELSE pinDone(p, s0, pin(p, s0))

portRead(p, s, s0) == portBuilt(p, s, s0, s0.h[p])

\* port.go 50-55: t is the first check of a handle Refresh never built
portChecked(p, s, t) ==
    IF ~s.h[p].built /\ t.k # "ok" THEN t
    ELSE portRead(p, s, IF s.h[p].built THEN s
                        ELSE [s EXCEPT !.h[p].types = t.x.typed, !.h[p].errs = t.x.key])

\* Context.Port (port.go 36-92): x = the Result
Port(p, s) ==
    IF ~s.h[p].reg THEN Panic(s)
    ELSE IF ~s.h[p].included \/ s.h[p].exhausted THEN Ok(s, "SKIPPED")
    ELSE IF s.h[p].patched
    THEN (IF s.h[p].incomplete THEN Panic(s) ELSE Ok(s, "CONTINUE"))
    ELSE portChecked(p, s, typeCheck(s, p, s.h[p].buildIdx, FALSE))

\* a variant that freezes GOROOT packages only
FrozenGoroot(p, repl) == Goroot(p)

\* main2.go 64: frozen packages (GOROOT and pinned golang.org/x/...)
Frozen(p, repl) == Goroot(p) \/ (IsGolangXPkg(p) /\ repl[ModOf(p)] # 0)

\* errors.go 88-96: the handle once the check asked by key is recorded
Rebuilt(h1, key) ==
    [h1 EXCEPT !.types = <<key[2], key[3]>>, !.errs = key, !.built = TRUE]

\* Handle.Refresh (errors.go 76-97) on a registered handle.  The errors of the
\* check are the oracle's answer to the recorded question; they are read, and
\* the oracle is asked, when Port first looks at them.
Refresh(p, s) ==
    LET h == s.h[p]
        pkg == s.pk[p]
        h1 == [h EXCEPT !.incomplete = FALSE, !.included = h.included \/ pkg.included]
        ifb == ~pkg.included \/ IsStdlibPkg(p)
    IN IF h.buildIdx > 0 /\ pkg.dirty THEN Panic(s)
       ELSE IF ~(pkg.dirty \/ pkg.depDirty) THEN Ok([s EXCEPT !.h[p] = h1], <<>>)
       ELSE IF h.buildIdx > 0 /\ Loaded(s, p) = 0 THEN Ask("nb", NoKey, p, s)
       ELSE IF h.buildIdx > 0 /\ h.buildIdx >= BuildsLen(s, p) THEN Panic(s)
       ELSE IF \E q \in Imports(p) : ~s.h[q].reg \/ s.h[q].types = NilView THEN Panic(s)
       ELSE Ok([s EXCEPT !.h[p] = Rebuilt(h1, CheckKey(s, p, h.buildIdx, ifb))], <<>>)

\* Context.GetHandle (part_004 126-134)
GetHandle(hs, p) == IF hs[p].reg THEN hs[p] ELSE [NewHandle EXCEPT !.reg = TRUE]

\* main2.go 61-66: r is the outcome of Refresh
refreshed(p, r) ==
    IF r.k # "ok" THEN r
    ELSE IF Frozen(p, metaRepl) THEN Ok([r.s EXCEPT !.h[p] = MarkExhausted(@)], <<>>)
    ELSE r

\* main2.go 54-59: s0 is the state once the handle is registered
registered(p, s0) ==
    IF ~s0.pk[p].firstLoad /\ Goroot(p) /\ (s0.pk[p].dirty \/ s0.pk[p].depDirty)
    THEN Panic(s0)
    ELSE refreshed(p, Refresh(p, s0))

\* one iteration of the refresh loop of run (main2.go 52-72)
refreshOne(p, s) == registered(p, [s EXCEPT !.h[p] = GetHandle(s.h, p)])

\* Context.CollectPins (part_004 136-147)
CollectPins(ps) ==
    {[Path |-> m, Version |-> ps[m].version, Pinned |-> ps[m].pinTo,
      Imported |-> ps[m].imported] : m \in {n \in NonMainMods : ps[n].set}}

\* GoFile.Name: <<"always", 0>> is the file built on every platform,
\* <<"tagged", b>> the file built only for candidate b; goos marks the name
\* "<stem>_<GOOS>.go" of a file applyExportDirective wrote
NoName == [stem |-> <<"", 0>>, goos |-> FALSE]
Always == [stem |-> <<"always", 0>>, goos |-> FALSE]
Tagged(b) == [stem |-> <<"tagged", b>>, goos |-> FALSE]
GoosName(name) == [name EXCEPT !.goos = TRUE]

\* pkg2.GoFile: a file loadPkg read, and the file applyExportDirective puts in
\* its place (port.go 446-458)
GoFile(name) == [Name |-> name, Replaced |-> NoName, Reason |-> {}]
ReplacedFile(gofile, edits) ==
    [Name |-> GoosName(gofile.Name), Replaced |-> gofile.Name, Reason |-> edits]

\* BuildConfig.Files of a candidate (load.go 243-386, port.go 406-461): the
\* edits of a derived candidate are in the file built on every platform
FilesOf(c) ==
    {IF c[2] = {} THEN GoFile(Always) ELSE ReplacedFile(GoFile(Always), c[2]),
     GoFile(Tagged(c[1]))}

\* BuildConfig.Platforms of a candidate (load.go 372-385, port.go 406)
GOOS == <<"zos", 0>>
PlatformsOf(c) ==
    IF c[2] # {} THEN <<GOOS>>
    ELSE IF c[1] = 0 THEN <<>>
    ELSE <<<<"unix", c[1]>>>>

\* a variant of the collector that lists every file of the selected candidate
ChangedAll(selected, default) == selected

\* part_004 157-168: the files of the selected candidate the default lacks
Changed(selected, default) == selected \ default

\* part_004 169-195, 199-204: the FilePatch of a file to build, of a file to
\* leave out
BuildPatch(gofile) ==
    [Name |-> gofile.Name, Build |-> TRUE, BaseFile |-> gofile.Replaced,
     Symbols |-> gofile.Reason]
DropPatch(gofile) ==
    [Name |-> gofile.Name, Build |-> FALSE, BaseFile |-> NoName, Symbols |-> {}]

\* part_004 154-204: the Files of one PackagePatch
FilePatches(selected, default) ==
    {BuildPatch(f) : f \in Changed(selected, default)}
        \cup {DropPatch(f) : f \in default \ selected}

\* Context.CollectPatches (part_004 149-220): one record per patched handle
CollectPatches(s) ==
    {[Path |-> p, Module |-> ModOf(p),
      Tags |-> PlatformsOf(BuildAt(s, p, s.h[p].buildIdx)),
      Files |-> FilePatches(FilesOf(BuildAt(s, p, s.h[p].buildIdx)),
                            FilesOf(BuildAt(s, p, 0)))] :
        p \in {q \in Pkgs : s.h[q].reg /\ s.h[q].patched}}

-----------------------------------------------------------------------------
(* The run *)

RECURSIVE Flatten(_)
Flatten(gs) == IF gs = <<>> THEN <<>> ELSE Head(gs) \o Flatten(Tail(gs))

Reverse(gs) == [i \in 1..Len(gs) |-> gs[Len(gs) + 1 - i]]

\* the refresh loop ranging over the groups from the last one
RefreshSeqDown == Flatten(Reverse(groups))

\* main2.go 52-53: groups in order, leaves first
RefreshSeq == Flatten(groups)

\* main2.go 76-79 with the groups taken in the order of the refresh loop
PortSeqUp == Flatten(groups)

\* main2.go 76-79: groups[len(groups)-(i+1)], each group in its own order
PortSeq == Flatten(Reverse(groups))

Cur == [h |-> handles, pk |-> pkgs, pins |-> pins, work |-> work]

InRefresh == pc = "refresh" /\ idx <= Len(RefreshSeq)
InPort == pc = "port" /\ idx <= Len(PortSeq)

Moves(old, new) == {m \in NonMainMods : old[m].pinTo # new[m].pinTo}

\* the effect of a step of run on the context, the package cache and the
\* workspace; a step that waits for the toolchain leaves them alone and puts
\* its question in ask
Commit(r) ==
    /\ ask' = r.need
    /\ IF r.k = "need"
       THEN UNCHANGED <<handles, pkgs, pins, work, pinMoves>>
       ELSE /\ handles' = r.s.h
            /\ pkgs' = r.s.pk
            /\ pins' = r.s.pins
            /\ work' = r.s.work
            /\ pinMoves' = [m \in NonMainMods |->
                               IF m \in Moves(pins, r.s.pins) THEN pinMoves[m] + 1
                               ELSE pinMoves[m]]

NoOutput == [done |-> FALSE, Modules |-> {}, Packages |-> {}]

\* the state main2 and run start from, whatever the workspace
\* no build constraint is being evaluated
NoTags == expr = [op |-> "none"]

\* main() is not running
NoMain == proc = [at |-> "none"] /\ fs = [mirror |-> FALSE, sum |-> FALSE, cache |-> FALSE, backup |-> FALSE]

Fresh ==
    /\ pc = "load"
    /\ idx = 1
    /\ groups = <<>>
    /\ pkgs = [p \in Pkgs |-> NewPackage]
    /\ handles = [p \in Pkgs |-> NewHandle]
    /\ pins = [m \in NonMainMods |-> NoPin]
    /\ metaRepl = [m \in NonMainMods |-> 0]
    /\ ask = NoNeed
    /\ tc = <<>>
    /\ nb = [p \in Pkgs |-> [v \in 1..MaxVer |-> 0]]
    /\ upd = [m \in NonMainMods |-> 0]
    /\ reloads = [m \in NonMainMods |-> 0]
    /\ pinMoves = [m \in NonMainMods |-> 0]
    /\ out = NoOutput

Init ==
    /\ Fresh /\ NoTags /\ NoMain
    /\ work \in [NonMainMods -> {0, ModVersion}]
    /\ world \in {w \in [incl : [Pkgs -> BOOLEAN]] : w.incl["app"] /\ w.incl["std"]}
    /\ graph = Workspace

\* main2.go 45-50: run returns the import-cycle error of Resolve, or goes on
\* with the groups
Resolved(st) ==
    /\ groups' = IF st.cycle THEN <<>> ELSE st.layers
    /\ pkgs' = st.pk
    /\ pc' = IF st.cycle THEN "error" ELSE "refresh"

\* run, main2.go 36-50: go mod tidy, List, Resolve, Groups
Load ==
    /\ pc = "load"
    /\ \E ord \in Orders :
         Resolved(Resolve(Roots,
                          [p \in Pkgs |-> ListPkg(pkgs[p], DirOf(work, p), world.incl[p])],
                          ord))
    /\ metaRepl' = work
    /\ idx' = 1
    /\ UNCHANGED <<expr, proc, fs, graph, handles, pins, work, world, ask, tc, nb, upd, reloads, pinMoves, out>>

Faults == Cardinality({k \in DOMAIN tc : ~NoErrors(tc[k])})

\* go/types answers a check it has not been asked before
ObserveTypes ==
    /\ ask.what = "tc"
    /\ \E e \in ErrSets(ask.key[1]) :
         /\ NoErrors(e) \/ Faults < MaxFaults
         /\ tc' = tc @@ (ask.key :> e)
    /\ ask' = NoNeed
    /\ UNCHANGED <<expr, proc, fs, graph, pc, idx, groups, pkgs, handles, pins, work, metaRepl, world, nb, upd,
                   reloads, pinMoves, out>>

\* loadPkg's candidate list is looked at for the first time
ObserveBuilds ==
    /\ ask.what = "nb"
    /\ \E n \in 1..MaxBuilds : nb' = [nb EXCEPT ![ask.p][pkgs[ask.p].dir] = n]
    /\ ask' = NoNeed
    /\ UNCHANGED <<expr, proc, fs, graph, pc, idx, groups, pkgs, handles, pins, work, metaRepl, world, tc, upd,
                   reloads, pinMoves, out>>

\* go list -m -u answers for a module
ObserveUpdate ==
    /\ ask.what = "upd"
    /\ \E v \in ModVersion..MaxVer : upd' = [upd EXCEPT ![ModOf(ask.p)] = v]
    /\ ask' = NoNeed
    /\ UNCHANGED <<expr, proc, fs, graph, pc, idx, groups, pkgs, handles, pins, work, metaRepl, world, tc, nb,
                   reloads, pinMoves, out>>

\* run, main2.go 52-74: one package of the refresh loop
RefreshStep ==
    /\ InRefresh /\ ask = NoNeed
    /\ LET r == refreshOne(RefreshSeq[idx], Cur)
       IN /\ Commit(r)
          /\ pc' = IF r.k = "panic" THEN "panic"
                   ELSE IF r.k = "ok" /\ idx = Len(RefreshSeq) THEN "port"
                   ELSE pc
          /\ idx' = IF r.k # "ok" THEN idx
                    ELSE IF idx = Len(RefreshSeq) THEN 1
                    ELSE idx + 1
    /\ UNCHANGED <<expr, proc, fs, graph, groups, metaRepl, world, tc, nb, upd, reloads, out>>

\* main2.go 81-89 without the jump back to load
AfterPortOn(result) == IF result = "ERROR" THEN "error" ELSE "port"

\* main2.go 81-89 with the jump back to load taken after every package
AfterPortLoad(result) == IF result = "ERROR" THEN "error" ELSE "load"

\* main2.go 81-89: what run does with the Result of Port
AfterPort(result) ==
    CASE result = "ERROR" -> "error"
      [] result = "RELOAD" -> "load"
      [] OTHER -> "port"

\* run, main2.go 76-91: one package of the port walk; reloads counts the
\* RESULT_RELOADs by the module whose pin caused them
PortStep ==
    /\ InPort /\ ask = NoNeed
    /\ LET r == Port(PortSeq[idx], Cur)
       IN /\ Commit(r)
          /\ pc' = IF r.k = "panic" THEN "panic"
                   ELSE IF r.k = "ok" THEN AfterPort(r.x)
                   ELSE pc
          /\ idx' = IF r.k = "ok" /\ AfterPort(r.x) = "port" THEN idx + 1 ELSE idx
          /\ reloads' = IF r.k = "ok" /\ r.x = "RELOAD"
                        THEN [reloads EXCEPT ![ModOf(PortSeq[idx])] = @ + 1]
                        ELSE reloads
    /\ UNCHANGED <<expr, proc, fs, graph, groups, metaRepl, world, tc, nb, upd, out>>

\* run returns nil; main2 collects the output (main2.go 93, 25-30)
Finish ==
    /\ pc = "port" /\ idx > Len(PortSeq)
    /\ pc' = "done"
    /\ out' = [done |-> TRUE, Modules |-> CollectPins(pins), Packages |-> CollectPatches(Cur)]
    /\ UNCHANGED <<expr, proc, fs, graph, idx, groups, pkgs, handles, pins, work, metaRepl, world, ask, tc, nb, upd,
                   reloads, pinMoves>>

Next == Load \/ ObserveTypes \/ ObserveBuilds \/ ObserveUpdate \/ RefreshStep \/ PortStep \/ Finish

Spec == Init /\ [][Next]_vars

-----------------------------------------------------------------------------
(* run on a chain of packages, with more candidates and more failing checks *)

\* app imports lib, lib imports the standard library
Chain ==
    [p \in Pkgs |-> CASE p = "app" -> {"lib"}
                     [] p = "lib" -> {"std"}
                     [] OTHER -> {}]

\* the module of lib already has a replace directive at its own version
InitChain ==
    /\ Fresh /\ NoTags /\ NoMain
    /\ work = [m \in NonMainMods |-> IF m = "example.com/lib" THEN ModVersion ELSE 0]
    /\ world = [incl |-> [p \in Pkgs |-> TRUE]]
    /\ graph = Chain

\* go/types answers a check it has not been asked before
ObserveTypesChain ==
    /\ ask.what = "tc"
    /\ \E e \in ErrSets(ask.key[1]) :
         /\ NoErrors(e) \/ Faults < MaxChainFaults
         /\ tc' = tc @@ (ask.key :> e)
    /\ ask' = NoNeed
    /\ UNCHANGED <<expr, proc, fs, graph, pc, idx, groups, pkgs, handles, pins, work, metaRepl, world, nb, upd,
                   reloads, pinMoves, out>>

\* loadPkg's candidate list is looked at for the first time
ObserveBuildsChain ==
    /\ ask.what = "nb"
    /\ \E n \in 1..MaxChainBuilds : nb' = [nb EXCEPT ![ask.p][pkgs[ask.p].dir] = n]
    /\ ask' = NoNeed
    /\ UNCHANGED <<expr, proc, fs, graph, pc, idx, groups, pkgs, handles, pins, work, metaRepl, world, tc, upd,
                   reloads, pinMoves, out>>

NextChain ==
    Load \/ ObserveTypesChain \/ ObserveBuildsChain \/ RefreshStep \/ PortStep \/ Finish

SpecChain == InitChain /\ [][NextChain]_vars

-----------------------------------------------------------------------------
(* run with the frontier loop of List taken one go list batch at a time *)

\* the packages reached from the set T along Package.Imports
RECURSIVE Deps(_)
Deps(T) ==
    LET n == T \cup UNION {Imports(p) : p \in T}
    IN IF n = T THEN T ELSE Deps(n)

\* load.go 30-34: the locals of List when it is entered: nothing found,
\* nothing sought, the command-line paths to ask for, firstLoad
ListEntry ==
    [at |-> "list", first |-> TRUE, found |-> {}, next |-> {Roots[i] : i \in DOMAIN Roots}]

\* go list -e -deps (env.go 140-143) answers with every path it was asked
\* for and with packages they depend on; the first batch is world.incl
Batches(l) ==
    IF l.first THEN {{p \in Deps(l.next) : world.incl[p]}}
    ELSE {l.next \cup d : d \in SUBSET (Deps(l.next) \ (l.next \cup l.found))}

\* load.go 180-187, 69-71: the imports of the batch that no batch has found
Sought(listed, found) == {q \in UNION {Imports(p) : p \in listed} : q \notin found}

\* load.go 47-195: one pass of the frontier loop.  A path asked for twice
\* is the panic of line 74; when nothing is sought any more List returns and
\* run goes on with Resolve and Groups (main2.go 45-50)
ListBatch ==
    /\ pc = "load"
    /\ \E got \in Batches(proc) :
         LET listed == got \ proc.found
             found == proc.found \cup got
             pk == [p \in Pkgs |-> IF p \in listed
                                   THEN ListPkg(pkgs[p], DirOf(work, p), proc.first)
                                   ELSE pkgs[p]]
             seeking == Sought(listed, found)
         IN IF proc.next \cap proc.found # {}
            THEN /\ pc' = "panic"
                 /\ UNCHANGED <<proc, pkgs, groups, metaRepl, idx>>
            ELSE IF seeking # {}
            THEN /\ proc' = [proc EXCEPT !.first = FALSE, !.found = found, !.next = seeking]
                 /\ pkgs' = pk
                 /\ UNCHANGED <<pc, groups, metaRepl, idx>>
            ELSE /\ \E ord \in Orders : Resolved(Resolve(Roots, pk, ord))
                 /\ proc' = ListEntry
                 /\ metaRepl' = work
                 /\ idx' = 1
    /\ UNCHANGED <<expr, fs, graph, handles, pins, work, world, ask, tc, nb, upd, reloads, pinMoves, out>>

\* the walk has a package to port, every query of the step is answered, and
\* the run has not been cut off
PortReady ==
    /\ InPort /\ ask = NoNeed
    /\ \A m \in NonMainMods : reloads[m] < MaxReloads

\* PortStep of a run that has not been cut off
PortTerm == PortReady /\ PortStep

\* run is at its label load, or List is between two passes of its loop
ListReady == pc = "load"

\* the first batch holds the command-line package and any of the others
InitTerm ==
    /\ Fresh /\ NoTags
    /\ proc = ListEntry
    /\ fs = [mirror |-> FALSE, sum |-> FALSE, cache |-> FALSE, backup |-> FALSE]
    /\ work \in {w \in [NonMainMods -> {0, ModVersion}] : w["golang.org/x/sys"] = 0}
    /\ world \in {w \in [incl : [Pkgs -> BOOLEAN]] : w.incl["app"] /\ ~w.incl["xsys"]}
    /\ graph = Chain

NextTerm ==
    ListBatch \/ ObserveTypes \/ ObserveBuilds \/ ObserveUpdate \/ RefreshStep \/ PortTerm \/ Finish

\* run is one sequential process and the toolchain answers every query: a
\* step that can be taken is taken.  ListBatch and PortTerm assign every
\* variable a value computed from the state, so each can be taken exactly
\* where ListReady and PortReady hold; their weak fairness is written with
\* these conditions in the place of ENABLED
SpecTerm ==
    /\ InitTerm /\ [][NextTerm]_vars
    /\ WF_vars(ObserveTypes) /\ WF_vars(ObserveBuilds) /\ WF_vars(ObserveUpdate)
    /\ WF_vars(RefreshStep) /\ WF_vars(Finish)
    /\ ([]<>~ListReady \/ []<><<ListBatch>>_vars)
    /\ ([]<>~PortReady \/ []<><<PortTerm>>_vars)

-----------------------------------------------------------------------------
(* List and Resolve on any import graph *)

\* import graphs in which a package imports at most MaxImports packages
Graphs == [Pkgs -> {ps \in SUBSET Pkgs : Cardinality(ps) <= MaxImports}]

InitResolve ==
    /\ Fresh /\ NoTags /\ NoMain
    /\ work = [m \in NonMainMods |-> 0]
    /\ world = [incl |-> [p \in Pkgs |-> TRUE]]
    /\ graph \in Graphs

\* main2.go 87-89: a walk that ends in RESULT_RELOAD jumps back to load
GotoLoad ==
    /\ pc = "refresh"
    /\ pc' = "load"
    /\ UNCHANGED <<expr, proc, fs, graph, idx, groups, pkgs, handles, pins, work, metaRepl, world, ask, tc, nb,
                   upd, reloads, pinMoves, out>>

NextResolve == Load \/ GotoLoad

SpecResolve == InitResolve /\ [][NextResolve]_vars

-----------------------------------------------------------------------------
(* Build constraints: the operators of package tags *)

\* part_002 58-72: the GOOS values matched by the "unix" build tag; the model
\* keeps the first MaxUnix of them
UnixNames ==
    <<"zos", "linux", "darwin", "aix", "android", "dragonfly", "freebsd", "hurd", "illumos",
      "ios", "netbsd", "openbsd", "solaris">>
unixOS == {UnixNames[i] : i \in 1..MaxUnix}

\* the target OS of a parse: a unix one, or one outside unixOS
GoosValues == unixOS \cup {"windows"}

\* part_002 101-109: the four kinds of Constraint
Ignored == [kind |-> "Ignored", os |-> {}]
All == [kind |-> "All", os |-> {}]
Supported == [kind |-> "Supported", os |-> {}]
Platforms(P) == [kind |-> "Platforms", os |-> P]

\* the constraints parseTagExpr hands to the operators: handleTagExpr makes
\* Platforms of one unix OS or of all but one, handleOrExpr turns a full set
\* into All and handleAndExpr an empty one into Ignored
Constraints ==
    {Ignored, All, Supported} \cup {Platforms(P) : P \in (SUBSET unixOS) \ {{}, unixOS}}

\* part_002 319: no priority for a Supported right operand
IsSupportedNever(c) == FALSE
\* part_002 319: right.(Supported)
IsSupported(c) == c.kind = "Supported"

\* part_002 338-342: merge by a union
Union(l2, r2) == l2 \cup r2

\* part_002 343: the length test never succeeds
CoversNever(l2) == FALSE
\* part_002 343: len(l2) == len(unixOS)
Covers(l2) == Cardinality(l2) = Cardinality(unixOS)

\* handleOrExpr, part_002 312-357
handleOrExpr(left, right) ==
    IF IsSupported(right) THEN Supported
    ELSE CASE left.kind = "Supported" -> Supported
           [] left.kind = "All" -> All
           [] left.kind = "Ignored" -> right
           [] left.kind = "Platforms" ->
                CASE right.kind = "Platforms" ->
                       IF Covers(Union(left.os, right.os)) THEN All
                       ELSE Platforms(Union(left.os, right.os))
                  [] right.kind = "Ignored" -> left
                  [] right.kind = "All" -> All

\* part_002 370-373: the right side is taken to cover GOOS whatever it is
rgoosAny(right, goos) == TRUE
\* part_002 370-373: does the right side cover GOOS
rgoos(right, goos) == IF right.kind = "Platforms" THEN goos \in right.os ELSE TRUE

\* part_002 396-406: merge by intersection, over unixOS
Intersect(l2, r2) == {os \in unixOS : os \in r2 /\ os \in l2}

\* handleAndExpr, part_002 359-427
handleAndExpr(left, right, goos) ==
    IF right.kind = "Ignored" THEN Ignored
    ELSE CASE left.kind = "Ignored" -> Ignored
           [] left.kind = "All" -> right
           [] left.kind = "Supported" -> IF rgoos(right, goos) THEN Supported ELSE Ignored
           [] left.kind = "Platforms" ->
                CASE right.kind = "Platforms" ->
                       IF Intersect(left.os, right.os) = {} THEN Ignored
                       ELSE Platforms(Intersect(left.os, right.os))
                  [] right.kind = "Supported" ->
                       IF goos \in left.os THEN Supported ELSE Ignored
                  [] right.kind = "All" -> left

\* parseTagExpr, part_002 220-233 and 236-251: both operands of x || y or of
\* x && y are parsed, then the operator is applied
InitTags ==
    /\ Fresh /\ NoMain
    /\ work = [m \in NonMainMods |-> 0]
    /\ world = [incl |-> [p \in Pkgs |-> TRUE]]
    /\ graph = Workspace
    /\ expr \in [op : {"operands"}, left : Constraints, right : Constraints, goos : GoosValues]

\* parseTagExpr, part_002 233-236 (and 240-243 under a negation)
OrExpr ==
    /\ expr.op = "operands"
    /\ expr' = [op |-> "or", left |-> expr.left, right |-> expr.right, goos |-> expr.goos,
                result |-> handleOrExpr(expr.left, expr.right)]
    /\ UNCHANGED <<proc, fs, graph, pc, idx, groups, pkgs, handles, pins, work, metaRepl, world,
                   ask, tc, nb, upd, reloads, pinMoves, out>>

\* parseTagExpr, part_002 246-250 (and 225-229 under a negation)
AndExpr ==
    /\ expr.op = "operands"
    /\ expr' = [op |-> "and", left |-> expr.left, right |-> expr.right, goos |-> expr.goos,
                result |-> handleAndExpr(expr.left, expr.right, expr.goos)]
    /\ UNCHANGED <<proc, fs, graph, pc, idx, groups, pkgs, handles, pins, work, metaRepl, world,
                   ask, tc, nb, upd, reloads, pinMoves, out>>

NextTags == OrExpr \/ AndExpr

SpecTags == InitTags /\ [][NextTags]_vars

-----------------------------------------------------------------------------
(* Build constraints: Parse of a file's name and header *)

\* constraint.Expr: a tag, !x, x && y, x || y
TagX(t) == [op |-> "tag", tag |-> t, args |-> <<>>]
NotX(x) == [op |-> "not", tag |-> "", args |-> <<x>>]
AndX(x, y) == [op |-> "and", tag |-> "", args |-> <<x, y>>]
OrX(x, y) == [op |-> "or", tag |-> "", args |-> <<x, y>>]

\* the tags of a header: the unix GOOS values, "unix", a tag the user may
\* have set with -tags, and a GOOS that is not a unix one
Tags == unixOS \cup {"unix", "cgo", "windows"}

\* the expressions with at most d operators above a tag
RECURSIVE Exprs(_)
Exprs(d) ==
    IF d = 0 THEN {TagX(t) : t \in Tags}
    ELSE LET S == Exprs(d - 1)
         IN S \cup {NotX(x) : x \in S} \cup {AndX(x, y) : x \in S, y \in S}
              \cup {OrX(x, y) : x \in S, y \in S}

\* what ParseFileHeader returns: no build line, an invalid one, an expression
NoHeader == [op |-> "none", tag |-> "", args |-> <<>>]
BadHeader == [op |-> "invalid", tag |-> "", args |-> <<>>]
Headers ==
    {NoHeader, BadHeader} \cup Exprs(MaxDepth) \cup {NotX(NotX(h)) : h \in Exprs(MaxDepth)}

\* file names by their suffixes: x.go, x_test.go, x_<arch>.go, x_<os>.go
Names ==
    {[test |-> t, arch |-> "", os |-> ""] : t \in BOOLEAN}
    \cup {[test |-> FALSE, arch |-> a, os |-> ""] : a \in {"amd64", "s390x"}}
    \cup {[test |-> FALSE, arch |-> "", os |-> o] : o \in unixOS \cup {"windows"}}

\* ParseFileName, part_002 151-192: the unix GOOS tag of the name, and whether
\* the name allows the file at all
ParseFileName(name) ==
    IF name.test THEN [ok |-> FALSE, tag |-> ""]
    ELSE IF name.arch # "" /\ name.arch # "s390x" THEN [ok |-> FALSE, tag |-> ""]
    ELSE IF name.os = "" THEN [ok |-> TRUE, tag |-> ""]
    ELSE IF name.os \in unixOS THEN [ok |-> TRUE, tag |-> name.os]
    ELSE [ok |-> FALSE, tag |-> ""]

\* a variant that takes no tag for a tag the user set
handleTagExprUnset(tag, negate, goos, atags) ==
    IF tag \in unixOS
    THEN IF tag = goos THEN (IF negate THEN Ignored ELSE Supported)
         ELSE IF negate THEN Platforms(unixOS \ {tag})
         ELSE Platforms({tag})
    ELSE IF (IF tag = "unix" THEN ~negate ELSE negate) THEN All
         ELSE Ignored

\* handleTagExpr, part_002 269-310
handleTagExpr(tag, negate, goos, atags) ==
    IF tag \in unixOS
    THEN IF tag = goos THEN (IF negate THEN Ignored ELSE Supported)
         ELSE IF negate THEN Platforms(unixOS \ {tag})
         ELSE Platforms({tag})
    ELSE IF (IF tag = "unix" \/ tag \in atags THEN ~negate ELSE negate) THEN All
         ELSE Ignored

\* part_002 254-256: a negation that is set, not toggled
FlipOn(negate) == TRUE
\* part_002 254-256: !negate
Flip(negate) == ~negate

\* parseTagExpr, part_002 220-267
RECURSIVE parseTagExpr(_, _, _, _)
parseTagExpr(e, negate, goos, atags) ==
    CASE e.op = "or" ->
           IF negate
           THEN handleAndExpr(parseTagExpr(e.args[1], negate, goos, atags),
                              parseTagExpr(e.args[2], negate, goos, atags), goos)
           ELSE handleOrExpr(parseTagExpr(e.args[1], negate, goos, atags),
                             parseTagExpr(e.args[2], negate, goos, atags))
      [] e.op = "and" ->
           IF negate
           THEN handleOrExpr(parseTagExpr(e.args[1], negate, goos, atags),
                             parseTagExpr(e.args[2], negate, goos, atags))
           ELSE handleAndExpr(parseTagExpr(e.args[1], negate, goos, atags),
                              parseTagExpr(e.args[2], negate, goos, atags), goos)
      [] e.op = "not" -> parseTagExpr(e.args[1], Flip(negate), goos, atags)
      [] e.op = "tag" -> handleTagExpr(e.tag, negate, goos, atags)

\* Parse, part_002 111-149
Parse(name, src, goos, buildtags) ==
    IF ~ParseFileName(name).ok THEN Ignored
    ELSE IF src = BadHeader THEN Ignored
    ELSE IF src # NoHeader
    THEN parseTagExpr(IF ParseFileName(name).tag # ""
                      THEN AndX(TagX(ParseFileName(name).tag), src) ELSE src,
                      FALSE, goos, buildtags)
    ELSE IF ParseFileName(name).tag # "" THEN Platforms({ParseFileName(name).tag})
    ELSE All

\* loadGoFile: a file of a package is about to be read
InitParse ==
    /\ Fresh /\ NoMain
    /\ work = [m \in NonMainMods |-> 0]
    /\ world = [incl |-> [p \in Pkgs |-> TRUE]]
    /\ graph = Workspace
    /\ expr \in [op : {"file"}, name : Names, src : Headers, goos : GoosValues,
                 buildtags : SUBSET {"cgo"}]

\* loadGoFile: tags.Parse(path, src, base.GOOS(), base.BuildTags)
ParseFile ==
    /\ expr.op = "file"
    /\ expr' = [op |-> "parsed", name |-> expr.name, src |-> expr.src, goos |-> expr.goos,
                buildtags |-> expr.buildtags,
                result |-> Parse(expr.name, expr.src, expr.goos, expr.buildtags)]
    /\ UNCHANGED <<proc, fs, graph, pc, idx, groups, pkgs, handles, pins, work, metaRepl, world,
                   ask, tc, nb, upd, reloads, pinMoves, out>>

NextParse == ParseFile

SpecParse == InitParse /\ [][NextParse]_vars

-----------------------------------------------------------------------------
(* loadPkg: the build candidates of a package *)

\* part_002 20-33, and the part of it within the unix GOOS values in use
UNIX_PLATFORM_RANKING ==
    <<"linux", "openbsd", "freebsd", "netbsd", "darwin", "solaris", "illumos", "dragonfly",
      "android", "ios", "hurd", "aix">>
Ranking == SelectSeq(UNIX_PLATFORM_RANKING, LAMBDA o : o \in unixOS)

\* the files go list reports, in the order loadPkg reads them: Meta.GoFiles,
\* Meta.CgoFiles, Meta.IgnoredGoFiles; tags is what tags.Parse answered
FileKinds == <<"go", "cgo", "ignored">>
KindRank(k) == CHOOSE i \in 1..3 : FileKinds[i] = k
FileLists ==
    {fl \in UNION {[1..n -> [kind : {"go", "cgo", "ignored"}, tags : Constraints]] : n \in 0..MaxFiles} :
        \A i \in DOMAIN fl : \A j \in DOMAIN fl :
            i < j => KindRank(fl[i].kind) <= KindRank(fl[j].kind)}

\* the files loadPkg reads: no ignored file of a standard library package
ReadFiles(fl, isStd) == {i \in DOMAIN fl : ~(isStd /\ fl[i].kind = "ignored")}

\* load.go 264-285, 313-334, 348-366: the panics on a constraint that
\* contradicts go list
BadTags(fl, isStd) ==
    \E i \in ReadFiles(fl, isStd) :
        /\ ~isStd
        /\ IF fl[i].kind = "ignored" THEN fl[i].tags \in {All, Supported}
           ELSE fl[i].tags = Ignored

\* the files that call getHash: those with a Platforms constraint
Hashed(fl, isStd) == {i \in ReadFiles(fl, isStd) : ~isStd /\ fl[i].tags.kind = "Platforms"}

\* a hash shared by every file
getHashSame(hashed, i) == 1

\* load.go 226-236: the hash of file i, one bit per call in reading order
getHash(hashed, i) == 2 ^ Cardinality({j \in hashed : j < i})

\* hash += getHash(): fewer than 64 files are hashed (load.go 228-230), so
\* the uint64 sum never wraps
RECURSIVE SumHash(_, _)
SumHash(hashed, S) ==
    IF S = {} THEN 0
    ELSE LET i == CHOOSE j \in S : TRUE
         IN getHash(hashed, i) + SumHash(hashed, S \ {i})

\* load.go 269-280: platforms[tag].files, and alwaysBuild
PlatformFiles(fl, isStd, tag) == {i \in Hashed(fl, isStd) : tag \in fl[i].tags.os}
ActiveFiles(fl) == {i \in DOMAIN fl : fl[i].kind # "ignored"}
alwaysBuild(fl, isStd) == ActiveFiles(fl) \ Hashed(fl, isStd)

\* load.go 370-389: the loop over the ranking; hashes maps a hash to the
\* index of its BuildConfig
RECURSIVE buildLoop(_, _, _, _, _)
buildLoop(rank, fl, isStd, builds, hashes) ==
    IF rank = <<>> THEN builds
    ELSE IF PlatformFiles(fl, isStd, Head(rank)) = {}
    THEN buildLoop(Tail(rank), fl, isStd, builds, hashes)
    ELSE IF SumHash(Hashed(fl, isStd), PlatformFiles(fl, isStd, Head(rank))) \in DOMAIN hashes
    THEN buildLoop(Tail(rank), fl, isStd,
                   [builds EXCEPT
                      ![hashes[SumHash(Hashed(fl, isStd), PlatformFiles(fl, isStd, Head(rank)))]].Platforms =
                          Append(@, Head(rank))],
                   hashes)
    ELSE buildLoop(Tail(rank), fl, isStd,
                   Append(builds,
                          [Platforms |-> <<Head(rank)>>,
                           Files |-> PlatformFiles(fl, isStd, Head(rank)) \cup alwaysBuild(fl, isStd)]),
                   hashes @@ (SumHash(Hashed(fl, isStd), PlatformFiles(fl, isStd, Head(rank)))
                                :> Len(builds) + 1))

\* loadPkg (load.go 200-401): pkg.Builds, Builds[1] being the default
\* BuildConfig, or a panic
loadPkg(fl, isStd) ==
    IF BadTags(fl, isStd) THEN [panic |-> TRUE, Builds |-> <<>>]
    ELSE [panic |-> FALSE,
          Builds |->
            IF isStd THEN <<[Platforms |-> <<>>, Files |-> ActiveFiles(fl)]>>
            ELSE buildLoop(Ranking, fl, isStd,
                           <<[Platforms |-> <<>>, Files |-> ActiveFiles(fl)]>>,
                           SumHash(Hashed(fl, isStd), Hashed(fl, isStd) \cap ActiveFiles(fl)) :> 1)]

\* List found a package that has to be read (load.go 111-115)
InitBuilds ==
    /\ Fresh /\ NoMain
    /\ work = [m \in NonMainMods |-> 0]
    /\ world = [incl |-> [p \in Pkgs |-> TRUE]]
    /\ graph = Workspace
    /\ expr \in [op : {"pkg"}, files : FileLists, isStd : BOOLEAN]

LoadPkg ==
    /\ expr.op = "pkg"
    /\ expr' = [op |-> "loaded", files |-> expr.files, isStd |-> expr.isStd,
                pkg |-> loadPkg(expr.files, expr.isStd)]
    /\ UNCHANGED <<proc, fs, graph, pc, idx, groups, pkgs, handles, pins, work, metaRepl, world,
                   ask, tc, nb, upd, reloads, pinMoves, out>>

NextBuilds == LoadPkg

SpecBuilds == InitBuilds /\ [][NextBuilds]_vars

-----------------------------------------------------------------------------
(* main(): the workspace mirror and the cache around main2 *)

\* the variables of run() and of the collectors
runVars ==
    <<pc, idx, groups, pkgs, handles, pins, work, metaRepl, world, ask, tc, nb, upd, reloads,
      pinMoves, out, graph>>

\* base.Output as main() reads it: Imported of every ModulePin, and the number
\* of PackagePatch records
Outputs == [Modules : UNION {[1..n -> BOOLEAN] : n \in 0..MaxPins}, Packages : 0..MaxPatches]

\* main.go 37-132: the flags are parsed and a workspace was found
InitMain ==
    /\ Fresh /\ NoTags
    /\ work = [m \in NonMainMods |-> 0]
    /\ world = [incl |-> [p \in Pkgs |-> TRUE]]
    /\ graph = Workspace
    /\ fs = [mirror |-> FALSE, sum |-> FALSE, cache |-> FALSE, backup |-> FALSE]
    /\ proc \in [at : {"copy"}, why : {""}, dryRun : BOOLEAN,
                 out : {[Modules |-> <<>>, Packages |-> 0]}, i : {0}, failed : {FALSE},
                 madeImportDir : {FALSE}]

\* os.Exit and log.Fatal: the process ends, deferred functions do not run
Exit(why) == proc' = [proc EXCEPT !.at = "exit", !.why = why]

Goto(at) == proc' = [proc EXCEPT !.at = at]

\* main.go 134-137: util.CopyFile(wfWork, base.GOWORK())
CopyWork ==
    /\ proc.at = "copy"
    /\ \E ok \in BOOLEAN :
          IF ok THEN fs' = [fs EXCEPT !.mirror = TRUE] /\ Goto("mkdir")
          ELSE fs' = fs /\ Exit("no temporary workspace")
    /\ UNCHANGED <<expr, runVars>>

\* main.go 144-146: os.MkdirAll(base.Cache, 0755)
MkdirCache ==
    /\ proc.at = "mkdir"
    /\ \E ok \in BOOLEAN :
          IF ok THEN fs' = [fs EXCEPT !.cache = TRUE] /\ Goto("setenv")
          ELSE fs' = fs /\ Exit("no cache")
    /\ UNCHANGED <<expr, runVars>>

\* main.go 148-150: os.Setenv("GOWORK", wfWork)
Setenv ==
    /\ proc.at = "setenv"
    /\ \E ok \in BOOLEAN : IF ok THEN Goto("main2") ELSE Exit("GOWORK not set")
    /\ UNCHANGED <<expr, fs, runVars>>

\* main.go 152-157: main2 returns an Output or an error; the go commands it
\* runs on the mirror may have written the mirror's .sum file
Main2 ==
    /\ proc.at = "main2"
    /\ \E sum \in BOOLEAN : fs' = [fs EXCEPT !.sum = sum]
    /\ \/ Exit("porting failed")
       \/ \E o \in Outputs : proc' = [proc EXCEPT !.at = "report", !.out = o]
    /\ UNCHANGED <<expr, runVars>>

\* main.go 159-172: the changes are printed; a dry run stops here
Report ==
    /\ proc.at = "report"
    /\ IF proc.dryRun THEN Exit("dry run")
       ELSE proc' = [proc EXCEPT !.at = "import", !.i = 1]
    /\ UNCHANGED <<expr, fs, runVars>>

\* main.go 176-193: one pass of the loop over out.Modules
ImportPin ==
    /\ proc.at = "import" /\ proc.i <= Len(proc.out.Modules)
    /\ IF ~proc.out.Modules[proc.i] THEN proc' = [proc EXCEPT !.i = @ + 1]
       ELSE \E mkdir \in BOOLEAN, imported \in BOOLEAN :
               IF ~proc.madeImportDir /\ ~mkdir
               THEN proc' = [proc EXCEPT !.madeImportDir = TRUE, !.failed = TRUE,
                                          !.i = Len(proc.out.Modules) + 1]
               ELSE proc' = [proc EXCEPT !.madeImportDir = TRUE,
                                          !.failed = @ \/ ~imported, !.i = @ + 1]
    /\ UNCHANGED <<expr, fs, runVars>>

\* main.go 195-197: the end of the loop over out.Modules
ImportDone ==
    /\ proc.at = "import" /\ proc.i > Len(proc.out.Modules)
    /\ IF proc.failed THEN Exit("import failed")
       ELSE proc' = [proc EXCEPT !.at = "patch", !.i = 1]
    /\ UNCHANGED <<expr, fs, runVars>>

\* main.go 199-204: one pass of the loop over out.Packages
ApplyPatch ==
    /\ proc.at = "patch" /\ proc.i <= proc.out.Packages
    /\ \E applied \in BOOLEAN : proc' = [proc EXCEPT !.failed = @ \/ ~applied, !.i = @ + 1]
    /\ UNCHANGED <<expr, fs, runVars>>

\* main.go 206-208: the end of the loop over out.Packages
PatchDone ==
    /\ proc.at = "patch" /\ proc.i > proc.out.Packages
    /\ IF proc.failed THEN Exit("patch failed") ELSE Goto("backup")
    /\ UNCHANGED <<expr, fs, runVars>>

\* main.go 210-228: the workspace file is backed up and replaced by the
\* mirror; the mirror is removed unless one of the two copies failed
Backup ==
    /\ proc.at = "backup"
    /\ \E backedUp \in BOOLEAN, updated \in BOOLEAN :
          fs' = [fs EXCEPT !.backup = backedUp,
                           !.mirror = IF backedUp /\ updated THEN FALSE ELSE @]
    /\ Goto("cleanup")
    /\ UNCHANGED <<expr, runVars>>

\* main.go 230-246 and the deferred function of 138-142: the cache is removed,
\* main returns and the mirror's .sum file is removed
Cleanup ==
    /\ proc.at = "cleanup"
    /\ fs' = [fs EXCEPT !.cache = FALSE, !.sum = FALSE]
    /\ Exit("completed")
    /\ UNCHANGED <<expr, runVars>>

NextMain ==
    \/ CopyWork \/ MkdirCache \/ Setenv \/ Main2 \/ Report \/ ImportPin \/ ImportDone
    \/ ApplyPatch \/ PatchDone \/ Backup \/ Cleanup

SpecMain == InitMain /\ [][NextMain]_vars

-----------------------------------------------------------------------------
(* Context.Port on the packages of one module: the pin and its imported mark *)

\* the module whose packages are walked, and a package of it
PinMod == "example.com/lib"
PinPkg == "lib"

\* how one call of Port ends for a package of the module: before the pin
\* coordinator (port.go 57-62), or with the outcome of Handle.port: valid
\* (169-172), waiting for its imports (245), patched (223, 309, 337), an error
PortOutcomes == {"clean", "valid", "deferred", "patched", "error"}

\* the packages of the module, in the order run ports them
ModPkgs == 1..MaxModPkgs

\* run after a first load in which go list -u was asked about the module
InitPins ==
    /\ NoTags
    /\ pc = "load" /\ idx = 1 /\ groups = <<>>
    /\ pkgs = [p \in Pkgs |-> NewPackage]
    /\ handles = [p \in Pkgs |-> NewHandle]
    /\ pins = [m \in NonMainMods |-> NoPin]
    /\ ask = NoNeed /\ tc = <<>>
    /\ nb = [p \in Pkgs |-> [v \in 1..MaxVer |-> 0]]
    /\ reloads = [m \in NonMainMods |-> 0]
    /\ pinMoves = [m \in NonMainMods |-> 0]
    /\ out = NoOutput
    /\ work \in {w \in [NonMainMods -> {0, ModVersion}] : w["golang.org/x/sys"] = 0}
    /\ metaRepl = work
    /\ upd \in {u \in [NonMainMods -> 0..MaxVer] : u[PinMod] # 0 /\ u["golang.org/x/sys"] = 0}
    /\ world = [incl |-> [p \in Pkgs |-> TRUE]]
    /\ graph = Workspace
    /\ fs = [mirror |-> FALSE, sum |-> FALSE, cache |-> FALSE, backup |-> FALSE]
    /\ proc = [at |-> "port", i |-> 1, st |-> [i \in ModPkgs |-> "new"]]

\* main2.go 76-91 on RESULT_CONTINUE, RESULT_SKIPPED, RESULT_PATCHED
Walked(st) == proc' = [proc EXCEPT !.i = @ + 1, !.st[proc.i] = st]

\* port.go 72-91: Handle.port ended with outcome o, the pin did not change
Recorded(c, o) ==
    IF o = "error"
    THEN /\ pins' = c.s.pins /\ work' = c.s.work
         /\ proc' = [proc EXCEPT !.at = "error"]
    ELSE /\ pins' = portRecorded(PinPkg, [c.s EXCEPT !.h[PinPkg].patched = (o = "patched")]).s.pins
         /\ work' = c.s.work
         /\ Walked(o)

\* port.go 64-70: c is the outcome of the pin coordinator
Pinned(c, o) ==
    IF c.x
    THEN /\ pins' = c.s.pins /\ work' = c.s.work
         /\ proc' = [proc EXCEPT !.at = "load"]
    ELSE Recorded(c, o)

\* Context.Port (port.go 36-92) for the next package of the module
PinsPort ==
    /\ proc.at = "port" /\ proc.i \in ModPkgs
    /\ IF proc.st[proc.i] = "patched"
       THEN Walked("patched") /\ UNCHANGED <<pins, work>>
       ELSE \E o \in PortOutcomes :
              IF o = "clean" THEN Walked(proc.st[proc.i]) /\ UNCHANGED <<pins, work>>
              ELSE Pinned(pin(PinPkg, Cur), o)
    /\ UNCHANGED <<expr, fs, graph, pc, idx, groups, pkgs, handles, metaRepl, world, ask, tc, nb,
                   upd, reloads, pinMoves, out>>

\* main2.go 87-89, 36-50: goto load; go list reports the replace directives
PinsLoad ==
    /\ proc.at = "load"
    /\ metaRepl' = work
    /\ proc' = [proc EXCEPT !.at = "port", !.i = 1]
    /\ UNCHANGED <<expr, fs, graph, pc, idx, groups, pkgs, handles, pins, work, world, ask, tc, nb,
                   upd, reloads, pinMoves, out>>

\* run returns nil; main2 collects the pins (main2.go 93, 25-30)
PinsFinish ==
    /\ proc.at = "port" /\ proc.i \notin ModPkgs
    /\ out' = [done |-> TRUE, Modules |-> CollectPins(pins), Packages |-> {}]
    /\ proc' = [proc EXCEPT !.at = "done"]
    /\ UNCHANGED <<expr, fs, graph, pc, idx, groups, pkgs, handles, pins, work, metaRepl, world,
                   ask, tc, nb, upd, reloads, pinMoves>>

NextPins == PinsPort \/ PinsLoad \/ PinsFinish

SpecPins == InitPins /\ [][NextPins]_vars

-----------------------------------------------------------------------------
(* Properties *)

\* C1: in every reachable state no Handle is exhausted together with patched
\* or valid.
C1_ExhaustedExclusive ==
    \A p \in Pkgs : handles[p].exhausted => ~handles[p].patched /\ ~handles[p].valid

\* C2: in every reachable state a patched Handle has a buildIdx that is at
\* least 1 and is an index into its package's Builds.
C2_PatchedIndex ==
    \A p \in Pkgs :
        handles[p].patched =>
            handles[p].buildIdx >= 1 /\ handles[p].buildIdx < BuildsLen(Cur, p)

C2_Witness == \E p \in Pkgs : handles[p].patched /\ pc = "done"

\* the package Port is working on
AtPort(p) == InPort /\ PortSeq[idx] = p

FirstPin(m) == pins[m].pinTo = 0 /\ pins'[m].pinTo = upd[m]
PinBack(m) ==
    /\ pins[m].pinTo \notin {0, ModVersion}
    /\ pins'[m].pinTo = ModVersion
    /\ \E p \in Pkgs :
         AtPort(p) /\ ModOf(p) = m /\ ~Clean(handles[p], ErrsOf(handles[p]))

\* C3: the pinTo of a module changes at most twice in a run: from unset to the
\* answer of the update query, and then, in a Port of a package of the module
\* that still has errors, to the module's original version; a pinTo equal to
\* the original version never changes.
C3_PinTransitions ==
    /\ [](\A m \in NonMainMods : pinMoves[m] <= 2)
    /\ [][\A m \in NonMainMods :
            pins'[m].pinTo # pins[m].pinTo => FirstPin(m) \/ PinBack(m)]_vars

C3_Witness == \E m \in NonMainMods : pinMoves[m] = 2 /\ pins[m].pinTo = ModVersion

RECURSIVE Sum(_, _)
Sum(f, S) == IF S = {} THEN 0 ELSE LET x == CHOOSE y \in S : TRUE IN f[x] + Sum(f, S \ {x})

\* C4: a run reloads at most twice per non-main module, so at most twice the
\* number of non-main modules in all.
C4_ReloadBound ==
    /\ \A m \in NonMainMods : reloads[m] <= 2
    /\ Sum(reloads, NonMainMods) <= 2 * Cardinality(NonMainMods)

C4_Witness == \E m \in NonMainMods : reloads[m] = 2

\* no type check of the run so far reported an error
CleanRun == \A k \in DOMAIN tc : NoErrors(tc[k])

\* C5: while every type check of an included package reports no error, the run
\* neither reloads nor touches a pin nor stops early, and what it emits has no
\* module and no package.
C5_AllGood ==
    CleanRun =>
        /\ \A m \in NonMainMods : reloads[m] = 0 /\ pinMoves[m] = 0 /\ ~pins[m].set
        /\ pc \notin {"error", "panic"}
        /\ out.Modules = {} /\ out.Packages = {}

C5_Witness == CleanRun /\ out.done /\ DOMAIN tc # {}

\* the packages of module m
PkgsOf(m) == {p \in Pkgs : ModOf(p) = m}

\* the type checks so far that reported errors
FaultKeys == {k \in DOMAIN tc : ~NoErrors(tc[k])}

\* a check of a package of m in version v, or of a package importing one
OfModuleAt(k, m, v) == ModOf(k[1]) = m /\ k[2] = v
ImportsAt(k, m, v) == \E q \in DOMAIN k[4] : ModOf(q) = m /\ k[4][q][1] = v

\* the errors of check k are all BadImportName on packages of m
BlamesOnly(k, m) == tc[k].local = "none" /\ tc[k].imps \subseteq PkgsOf(m)

\* the module-upgrade scenario for m: a package of m has errors at the original
\* version, the update query named a newer version, and every error of the run
\* is one of a package of m at the original version or a BadImportName on such a
\* package; so every check made with the upgrade is clean
UpgradeScenario(m) ==
    /\ upd[m] > ModVersion
    /\ \E k \in FaultKeys : OfModuleAt(k, m, ModVersion)
    /\ \A k \in FaultKeys :
         \/ OfModuleAt(k, m, ModVersion)
         \/ ImportsAt(k, m, ModVersion) /\ BlamesOnly(k, m)

UpgradeRecord(m) == [Path |-> m, Version |-> ModVersion, Pinned |-> upd[m], Imported |-> FALSE]

\* C6: in the module-upgrade scenario the run reloads once, for that module,
\* does not stop early, and emits exactly the record of the upgrade (Pinned the
\* upgrade, Version the original) and no package.
C6_ModuleUpgrade ==
    \A m \in NonMainMods :
        UpgradeScenario(m) =>
            /\ pc \notin {"error", "panic"}
            /\ Sum(reloads, NonMainMods) <= 1
            /\ out.done => /\ reloads[m] = 1
                           /\ out.Modules = {UpgradeRecord(m)}
                           /\ out.Packages = {}

C6_Witness == \E m \in NonMainMods : UpgradeScenario(m) /\ out.done

\* m was upgraded by the pin coordinator and errors attributed to it persist:
\* with m at the upgrade, a package of m has errors, or the errors of an
\* importer are all BadImportName on packages of m
Upgraded(m) == upd[m] > ModVersion /\ reloads[m] >= 1
ErrorsPersist(m) ==
    \E k \in FaultKeys :
        \/ OfModuleAt(k, m, upd[m])
        \/ ImportsAt(k, m, upd[m]) /\ BlamesOnly(k, m)

\* C7: a run that upgraded a module and still saw errors attributed to it ends
\* with the replace back at the original version, a second reload made for it,
\* and a record whose Pinned equals Version; for every non-main module.
C7_PinBack ==
    \A m \in NonMainMods :
        (out.done /\ Upgraded(m) /\ ErrorsPersist(m)) =>
            /\ work[m] = ModVersion
            /\ reloads[m] = 2
            /\ \E r \in out.Modules : r.Path = m /\ r.Pinned = r.Version

\* Port returns for p in this step
Ported(p) == AtPort(p) /\ (idx' # idx \/ pc' # pc)

\* C8: a Port that exhausts its package (Handle.port marks it exhausted only
\* when it returns an error) does not stop the run: the walk goes on to the
\* next package.
C8_RunContinues ==
    [][\A p \in Pkgs :
          (Ported(p) /\ ~handles[p].exhausted /\ handles'[p].exhausted)
              => pc' = "port" /\ idx' = idx + 1]_vars

\* the errors Port finds on p are all TCBadOther
AllOther(p) ==
    /\ handles[p].errs \in DOMAIN tc
    /\ ErrsOf(handles[p]).imps = {} /\ ErrsOf(handles[p]).local \in {"hard", "soft"}

\* C9: a Port of an included, not exhausted package whose errors are all
\* TCBadOther leaves its Handle exhausted.
C9_OtherExhausts ==
    [][\A p \in Pkgs :
          (Ported(p) /\ pc' # "panic" /\ handles[p].included /\ ~handles[p].exhausted
             /\ AllOther(p))
              => handles'[p].exhausted]_vars

\* p is a standard-library package or a golang.org/x package whose module had
\* a replace directive at the last load
IsFrozen(p) == Goroot(p) \/ (IsGolangXPkg(p) /\ metaRepl[ModOf(p)] # 0)

\* every frozen package is exhausted by the time the port walk runs
FrozenFirst == pc \in {"port", "error", "done"} => \A p \in Pkgs : IsFrozen(p) => handles[p].exhausted

\* C10: every frozen package is marked exhausted in the Refresh pass, before
\* any Port of that walk, and afterwards its Handle keeps buildIdx 0 and its
\* incomplete, included, patched and valid fields.
C10_FrozenUntouched ==
    /\ []FrozenFirst
    /\ [][\A p \in Pkgs :
            (IsFrozen(p) /\ handles[p].exhausted) =>
                /\ handles'[p].buildIdx = 0
                /\ handles'[p].incomplete = handles[p].incomplete
                /\ handles'[p].included = handles[p].included
                /\ handles'[p].patched = handles[p].patched
                /\ handles'[p].valid = handles[p].valid]_vars

\* C10, amended: every frozen package is marked exhausted in the Refresh pass,
\* before any Port of that walk, and afterwards its Handle stays exhausted and
\* keeps buildIdx 0 and its patched and valid fields; incomplete and included
\* are still written by the port of an importer.
C10_FrozenKept ==
    /\ []FrozenFirst
    /\ [][\A p \in Pkgs :
            (IsFrozen(p) /\ handles[p].exhausted) =>
                /\ handles'[p].exhausted
                /\ handles'[p].buildIdx = 0
                /\ handles'[p].patched = handles[p].patched
                /\ handles'[p].valid = handles[p].valid]_vars

C10_Witness ==
    \E p \in Pkgs : IsFrozen(p) /\ handles[p].exhausted /\ handles[p].incomplete /\ out.done

\* the packages that import p, directly or through other packages
RECURSIVE ImportersUpTo(_, _)
ImportersUpTo(ps, n) ==
    IF n = 0 THEN ps
    ELSE ImportersUpTo(ps \cup {a \in Pkgs : Imports(a) \cap ps # {}}, n - 1)

Ancestors(p) == ImportersUpTo({p}, Cardinality(Pkgs)) \ {p}

\* the type check of a at the candidate its handle holds now
FinalKey(a) == CheckKey(Cur, a, handles[a].buildIdx, FALSE)

\* C11: when run() has returned nil, for every package p whose selected
\* candidate is not the default one, every main-module package that imports p
\* directly or transitively has been type-checked at its own final candidate
\* and that check reports no error that names p (TCBadName carries no package:
\* an undefined name of p is classified TCBadImportName).
C11_AncestorsClean ==
    out.done =>
        \A p \in Pkgs :
            handles[p].buildIdx > 0 =>
                \A a \in {b \in Ancestors(p) : Main(b)} :
                    FinalKey(a) \in DOMAIN tc /\ p \notin tc[FinalKey(a)].imps

C11_Witness ==
    /\ out.done
    /\ \E p \in Pkgs : /\ handles[p].buildIdx > 0
                       /\ \E a \in Ancestors(p) : Main(a) /\ tc[FinalKey(a)] # NoErrs

\* the packages reachable from ps along at most n imports
RECURSIVE ImportsUpTo(_, _)
ImportsUpTo(ps, n) ==
    IF n = 0 THEN ps
    ELSE ImportsUpTo(ps \cup UNION {Imports(p) : p \in ps}, n - 1)

\* the packages reachable from the roots, and from the imports of p
Reachable == ImportsUpTo({Roots[i] : i \in DOMAIN Roots}, Cardinality(Pkgs))
Below(p) == ImportsUpTo(Imports(p), Cardinality(Pkgs))
HasCycle == \E p \in Reachable : p \in Below(p)

\* how many times p occurs in the sequence ps
Occurrences(ps, p) == Cardinality({i \in DOMAIN ps : ps[i] = p})

\* C12: once Resolve has returned, it has failed with the import-cycle error
\* exactly when the graph reachable from the roots has a cycle, and otherwise
\* its level groups hold every reachable package once and no other package.
C12_CycleIffError ==
    pc # "load" =>
        /\ (pc = "error") <=> HasCycle
        /\ pc = "refresh" =>
              \A p \in Pkgs :
                  Occurrences(Flatten(groups), p) = IF p \in Reachable THEN 1 ELSE 0

C12_Witness ==
    pc = "error" /\ \E p \in Reachable : p \in Below(p) /\ p \notin Imports(p)

Max(ns) == CHOOSE n \in ns : \A m \in ns : m <= n

\* C13: after a Resolve that succeeded, on the first load and on every reload,
\* a reachable package without imports has level 0 and any other reachable
\* package has level 1 + the highest level of its imports.
C13_Levels ==
    pc = "refresh" =>
        \A p \in Reachable :
            pkgs[p].level = IF Imports(p) = {} THEN 0
                            ELSE 1 + Max({pkgs[q].level : q \in Imports(p)})

C13_Witness ==
    /\ pc = "refresh" /\ ~pkgs["app"].firstLoad
    /\ \E p \in Reachable : pkgs[p].level = 2 /\ \E q \in Imports(p) : pkgs[q].level = 0

\* the candidate the handle of p holds, and the default candidate
SelectedFiles(p) == FilesOf(BuildAt(Cur, p, handles[p].buildIdx))
DefaultFiles(p) == FilesOf(BuildAt(Cur, p, 0))

\* the entries of r.Files for the file named n
Listed(r, n) == {f \in r.Files : f.Name = n}

\* C14: the emitted Packages hold one record for every patched Handle and none
\* for any other; in a record a file of the selected candidate that the default
\* candidate lacks is listed once with Build=true, a file of the default
\* candidate that the selected one lacks is listed once with Build=false, no
\* other file is listed, and Tags is the selected candidate's platform list.
C14_PatchRecords ==
    out.done =>
        /\ \A p \in Pkgs :
              Cardinality({r \in out.Packages : r.Path = p})
                  = IF handles[p].patched THEN 1 ELSE 0
        /\ \A r \in out.Packages :
              /\ r.Tags = PlatformsOf(BuildAt(Cur, r.Path, handles[r.Path].buildIdx))
              /\ \A g \in SelectedFiles(r.Path) \cup DefaultFiles(r.Path) :
                    /\ Cardinality(Listed(r, g.Name))
                           = IF g \in SelectedFiles(r.Path) \cap DefaultFiles(r.Path)
                             THEN 0 ELSE 1
                    /\ \A f \in Listed(r, g.Name) : f.Build = (g \in SelectedFiles(r.Path))
              /\ \A f \in r.Files :
                    \E g \in SelectedFiles(r.Path) \cup DefaultFiles(r.Path) :
                        g.Name = f.Name

C14_Witness ==
    /\ out.done
    /\ \E r \in out.Packages : \E f, g \in r.Files : f.Build /\ ~g.Build

\* the checks of p made so far: of a candidate loadPkg found, of a derived one
LoadedChecks(p) == {k \in DOMAIN tc : k[1] = p /\ k[3][2] = {}}
DerivedChecks(p) == {k \in DOMAIN tc : k[1] = p /\ k[3][2] # {}}

\* the inline scenario for p: every candidate of p that was checked reports
\* BadImportName errors only, all on imports that are exhausted and that the
\* inline catalog covers; the candidates carrying the substitutions and every
\* other package check clean
InlineScenario(p) ==
    /\ LoadedChecks(p) # {}
    /\ \A k \in LoadedChecks(p) :
          /\ tc[k].local = "none" /\ tc[k].imps # {}
          /\ tc[k].imps \subseteq {q \in Inlines : handles[q].exhausted}
    /\ \A k \in DOMAIN tc \ LoadedChecks(p) : NoErrors(tc[k])

\* a FilePatch for a derived file "<base>_<GOOS>.go" of the file base
DerivedPatch(f) == f.Build /\ f.Name.goos /\ f.BaseFile = [f.Name EXCEPT !.goos = FALSE]
                       /\ f.Symbols # {}

\* C15: in the inline scenario, however many candidates the package has, the
\* run ends with the package patched and with a record for it that lists a
\* derived file with Build=true, its BaseFile and its symbol substitutions.
C15_InlinePatched ==
    \A p \in Pkgs :
        (pc \in {"done", "error", "panic"} /\ InlineScenario(p)) =>
            /\ out.done
            /\ handles[p].patched
            /\ \E r \in out.Packages : r.Path = p /\ \E f \in r.Files : DerivedPatch(f)

\* the level groups the next load builds when the import maps are ranged over
\* in the order ord
GroupsFor(ord) ==
    Resolve(Roots, [p \in Pkgs |-> ListPkg(pkgs[p], DirOf(work, p), world.incl[p])],
            ord).layers

\* C16: a run is a function of its inputs and of the oracle's answers; in
\* particular the order of the packages inside a level group, which is the
\* order the run processes them in, is the same whichever way the load ranges
\* over the import maps.
C16_SameOrder ==
    pc = "load" => \A o1, o2 \in Orders : GroupsFor(o1) = GroupsFor(o2)

\* the operator applied, with both operands of the kinds named
Applied(op, lk, rk) == expr.op = op /\ expr.left.kind = lk /\ expr.right.kind = rk

\* C18: handleAndExpr gives Ignored if either operand is Ignored; the other
\* operand if one operand is All; Supported for Supported AND Supported; for
\* Supported AND Platforms(P), in either order, Supported if the target OS is
\* in P and Ignored otherwise; for Platforms(P) AND Platforms(Q) the Platforms
\* of the unix members of both, or Ignored when there is none.
C18_And ==
    expr.op = "and" =>
        LET l == expr.left  r == expr.right  g == expr.goos  res == expr.result IN
        /\ (l = Ignored \/ r = Ignored) => res = Ignored
        /\ l = All => res = r
        /\ r = All => res = l
        /\ (l = Supported /\ r = Supported) => res = Supported
        /\ (l = Supported /\ r.kind = "Platforms") =>
               res = IF g \in r.os THEN Supported ELSE Ignored
        /\ (l.kind = "Platforms" /\ r = Supported) =>
               res = IF g \in l.os THEN Supported ELSE Ignored
        /\ (l.kind = "Platforms" /\ r.kind = "Platforms") =>
               res = IF l.os \cap r.os \cap unixOS = {} THEN Ignored
                     ELSE Platforms(l.os \cap r.os \cap unixOS)

C18_Witness ==
    /\ Applied("and", "Supported", "Platforms")
    /\ expr.goos \notin expr.right.os
    /\ expr.result = Ignored

\* C19 as stated: for every x, Ignored OR x = x, All OR x = All and
\* Supported OR x = Supported; Platforms(P) OR Platforms(Q) is All when P \cup Q
\* has as many members as unixOS and Platforms(P \cup Q) otherwise.
C19_OrAsStated ==
    expr.op = "or" =>
        LET l == expr.left  r == expr.right  res == expr.result IN
        /\ l = Ignored => res = r
        /\ l = All => res = All
        /\ l = Supported => res = Supported
        /\ (l.kind = "Platforms" /\ r.kind = "Platforms") =>
               res = IF Cardinality(l.os \cup r.os) = Cardinality(unixOS) THEN All
                     ELSE Platforms(l.os \cup r.os)

\* C19, amended: the same, except that All OR x = All holds for every x but
\* Supported (All OR Supported = Supported).
C19_Or ==
    expr.op = "or" =>
        LET l == expr.left  r == expr.right  res == expr.result IN
        /\ l = Ignored => res = r
        /\ (l = All /\ r # Supported) => res = All
        /\ l = Supported => res = Supported
        /\ (l.kind = "Platforms" /\ r.kind = "Platforms") =>
               res = IF Cardinality(l.os \cup r.os) = Cardinality(unixOS) THEN All
                     ELSE Platforms(l.os \cup r.os)

C19_Witness ==
    /\ Applied("or", "Platforms", "Platforms")
    /\ expr.left.os \cup expr.right.os = unixOS
    /\ expr.result = All

\* C20: handleOrExpr gives Supported whenever one of its operands is
\* Supported, whatever the other one is and in either order.
C20_OrSupported ==
    (expr.op = "or" /\ (expr.left = Supported \/ expr.right = Supported)) =>
        expr.result = Supported

C20_Witness == Applied("or", "All", "Supported") /\ expr.result = Supported

\* the exits of main() taken after the mirror and the cache were created
LateExits == {"completed", "dry run", "porting failed", "import failed", "patch failed"}

\* C17: when main() ends after the workspace mirror and the cache directory
\* were created (normal completion, dry run, porting failure, module-import
\* failure, patch-application failure), the mirror file and the cache
\* directory have both been removed.
C17_Released ==
    (proc.at = "exit" /\ proc.why \in LateExits) => ~fs.mirror /\ ~fs.cache

\* C21: for every header H, target OS and set of user build tags, the header
\* !!H evaluates to the same constraint as H.
C21_NotNot ==
    expr.op = "parsed" =>
        \A h \in Exprs(MaxDepth) :
            expr.src = NotX(NotX(h)) =>
                expr.result = Parse(expr.name, h, expr.goos, expr.buildtags)

C21_Witness ==
    /\ expr.op = "parsed"
    /\ expr.src = NotX(NotX(OrX(TagX("linux"), TagX("cgo"))))
    /\ expr.result.kind = "Platforms"

\* C22: every Platforms(S) that evaluating a file's name and header produces
\* has S a subset of unixOS that does not contain the target OS.
C22_TargetAbsent ==
    (expr.op = "parsed" /\ expr.result.kind = "Platforms") =>
        expr.result.os \subseteq unixOS /\ expr.goos \notin expr.result.os

\* a call of Port on p returns in this step
PortCall(p) == AtPort(p) /\ ask = NoNeed /\ ask' = NoNeed

\* the packages Port was called on earlier in this walk, and those of the walk
PortedBefore == {PortSeq[i] : i \in 1..(idx - 1)}
InWalk == {PortSeq[i] : i \in 1..Len(PortSeq)}

\* C23 as stated: within a walk Port is called once per package, in ascending
\* level: on a package only after it was called on every package it imports.
C23_LeavesFirst ==
    [][\A p \in Pkgs :
          PortCall(p) => p \notin PortedBefore /\ Imports(p) \cap InWalk \subseteq PortedBefore]_vars

\* C23, amended: within a walk Port is called at most once per package, in
\* descending level: on a package only after it was called on every package
\* of the walk that imports it.
C23_RootsFirst ==
    [][\A p \in Pkgs :
          PortCall(p) =>
              /\ p \notin PortedBefore
              /\ \A q \in InWalk : p \in Imports(q) => q \in PortedBefore]_vars

C23_Witness ==
    /\ InPort /\ idx > 1 /\ ask = NoNeed
    /\ \E i \in 1..(idx - 1) : PortSeq[idx] \in Imports(PortSeq[i])

\* C24: a RESULT_RELOAD ends the walk: the next steps of run are the load with
\* its Resolve, then the Refresh of every package of the new groups in their
\* order, and only then the next call of Port.
C24_Restart ==
    [][/\ (pc = "port" /\ reloads' # reloads) => pc' = "load"
       /\ pc = "load" => pc' \in {"load", "refresh", "error"} /\ (pc' = "refresh" => idx' = 1)
       /\ pc = "refresh" =>
             /\ pc' \in {"refresh", "port", "panic"}
             /\ pc' = "refresh" => idx' \in {idx, idx + 1} /\ groups' = groups
             /\ pc' = "port" => idx = Len(RefreshSeq) /\ idx' = 1
       /\ (\E p \in Pkgs : PortCall(p)) => pc = "port"]_vars

C24_Witness ==
    /\ InPort /\ idx > 1 /\ ask = NoNeed
    /\ \E m \in NonMainMods : reloads[m] > 0

\* Port reaches p, whose handle is included, not exhausted, not patched, not
\* incomplete, and whose check at its candidate reports no error
ReachedClean(p) ==
    /\ PortCall(p)
    /\ handles[p].included /\ ~handles[p].exhausted /\ ~handles[p].patched
    /\ ~handles[p].incomplete
    /\ handles'[p].buildIdx = handles[p].buildIdx
    /\ NoErrors(ErrsOf(handles'[p]))

\* C25: when Port reaches a Handle that is included, not exhausted, without
\* errors and not incomplete, it marks the Handle patched if its candidate index
\* is greater than 0 and valid if its candidate index is 0.
C25_CleanMarked ==
    [][\A p \in Pkgs :
          ReachedClean(p) =>
              IF handles[p].buildIdx > 0 THEN handles'[p].patched ELSE handles'[p].valid]_vars

\* the context after the step
Post == [h |-> handles', pk |-> pkgs', pins |-> pins', work |-> work']

\* the check of parent q at its own candidate, against the view p has after
\* the step
ParentKey(q) == CheckKey(Post, q, handles'[q].buildIdx, FALSE)

\* that check was made and reports a BadImportName that resolves to p
Blames(q, p) == ParentKey(q) \in DOMAIN tc /\ p \in tc[ParentKey(q)].imps

\* Port leaves p, not exhausted, at another candidate than before
Accepted(p) ==
    /\ PortCall(p) /\ ~handles'[p].exhausted
    /\ handles'[p].buildIdx # handles[p].buildIdx \/ pkgs'[p].derived # pkgs[p].derived

\* the retag loop of Port selected candidates of p and ran out of them
Rejected(p) ==
    /\ PortCall(p) /\ handles'[p].exhausted /\ ~handles[p].exhausted
    /\ handles'[p].buildIdx # handles[p].buildIdx /\ pkgs'[p].derived = pkgs[p].derived

\* C26: a newly selected candidate of p is accepted exactly when no parent,
\* type-checked at its own candidate against the new view of p, reports a
\* BadImportName that resolves to p: an accepted candidate has every parent
\* checked without such an error, whatever else the parents report, and a
\* rejected one has a parent with such an error.
C26_Validate ==
    [][\A p \in Pkgs :
          /\ Accepted(p) =>
                \A q \in pkgs[p].parents : ParentKey(q) \in DOMAIN tc /\ ~Blames(q, p)
          /\ Rejected(p) => \E q \in pkgs[p].parents : Blames(q, p)]_vars

C26_Witness ==
    \E p \in Pkgs :
        /\ handles[p].buildIdx > 0 /\ handles[p].patched
        /\ \E q \in pkgs[p].parents :
              LET k == CheckKey(Cur, q, handles[q].buildIdx, FALSE)
              IN k \in DOMAIN tc /\ tc[k].local = "hard" /\ p \notin tc[k].imps

\* p deferred to its import q, and q has been ported since: the errors p
\* holds name q, neither is exhausted, and q is patched
Deferred(p, q) ==
    /\ handles[p].included /\ ~handles[p].exhausted /\ handles[p].errs \in DOMAIN tc
    /\ q \in tc[handles[p].errs].imps
    /\ ~handles[q].exhausted /\ handles[q].patched

\* C27: a package with BadImportName errors on imports that are not exhausted
\* flags them and waits; once those imports have been ported it is
\* type-checked and ported again before the run ends: when run() has returned
\* nil, the errors such a package holds come from a check made against its
\* imports as they are ported.
C27_Revisited ==
    out.done =>
        \A p \in Pkgs : \A q \in Imports(p) :
            Deferred(p, q) => handles[p].errs[4][q] = handles[q].types

\* Port returns for p without an error, with another candidate index
ChangedAt(p) ==
    PortCall(p) /\ pc' # "error" /\ handles'[p].buildIdx # handles[p].buildIdx

\* p is loaded again with a candidate Port selected earlier
Reloaded(p) == pkgs[p].dirty /\ ~pkgs[p].firstLoad /\ handles[p].buildIdx > 0

\* C28: a Port that changes the candidate index of p marks p modified; the next
\* load and Resolve set dep_dirty on every package of the walk that imports p,
\* directly or not; and the refresh loop of that load goes through, so that
\* those packages are type-checked again.
C28_Retyped ==
    [][\A p \in Pkgs :
          /\ ChangedAt(p) => pkgs'[p].modified
          /\ (pc = "load" /\ pc' = "refresh" /\ pkgs[p].modified) =>
                \A a \in Ancestors(p) :
                    a \in {RefreshSeq'[i] : i \in 1..Len(RefreshSeq')} => pkgs'[a].depDirty
          /\ (pc = "refresh" /\ Reloaded(p)) => pc' # "panic"]_vars

\* the packages p imports, directly or not
Closure(p) == {q \in Pkgs : p \in Ancestors(q)}

\* C29: after each load and Resolve, dep_dirty(p) holds for a package p of the
\* walk exactly when some package p imports, directly or not, is dirty in that
\* load.
C29_DepDirty ==
    [][(pc = "load" /\ pc' = "refresh") =>
          \A p \in {RefreshSeq'[i] : i \in 1..Len(RefreshSeq')} :
              pkgs'[p].depDirty <=> \E q \in Closure(p) : pkgs'[q].dirty]_vars

\* a load after the first one, in which one import of app is dirty and the
\* other one is not
C29_Witness ==
    /\ pc = "refresh" /\ idx = 1
    /\ \A p \in Pkgs : ~pkgs[p].firstLoad
    /\ pkgs["app"].depDirty
    /\ \E q \in Imports("app") : pkgs[q].dirty
    /\ \E q \in Imports("app") : ~pkgs[q].dirty /\ ~pkgs[q].depDirty

\* Port returns RESULT_PATCHED for a package of the module
NewlyPatched ==
    /\ proc.at = "port" /\ proc'.at = "port" /\ proc.i \in ModPkgs
    /\ proc.st[proc.i] # "patched" /\ proc'.st[proc.i] = "patched"

\* the run ends with a patched package in the module
EmittedPatched == out'.done /\ ~out.done /\ \E i \in ModPkgs : proc'.st[i] = "patched"

\* C30: when Port finishes with a package of a non-main module newly patched,
\* the pin of the module has imported = true, and the module record the run
\* emits for it has Imported = true.
C30_Imported ==
    [][/\ NewlyPatched => pins'[PinMod].imported
       /\ EmittedPatched => \E r \in out'.Modules : r.Path = PinMod /\ r.Imported]_vars

\* a file whose name carries no GOOS tag and whose header is the tag t, or !t
AtomFile(t, neg) ==
    /\ expr.op = "parsed"
    /\ ParseFileName(expr.name) = [ok |-> TRUE, tag |-> ""]
    /\ expr.src = IF neg THEN NotX(TagX(t)) ELSE TagX(t)

\* the value of an atom, the target tested whatever kind of GOOS it is
AtomAsStated(t, neg, G, T) ==
    IF t \in unixOS /\ t # G THEN (IF neg THEN Platforms(unixOS \ {t}) ELSE Platforms({t}))
    ELSE IF t = G THEN (IF neg THEN Ignored ELSE Supported)
    ELSE IF t = "unix" \/ t \in T THEN (IF neg THEN Ignored ELSE All)
    ELSE IF neg THEN All ELSE Ignored

\* the value of an atom, the target tested among the unix GOOS values only
AtomValue(t, neg, G, T) ==
    IF t \in unixOS /\ t # G THEN (IF neg THEN Platforms(unixOS \ {t}) ELSE Platforms({t}))
    ELSE IF t \in unixOS /\ t = G THEN (IF neg THEN Ignored ELSE Supported)
    ELSE IF t = "unix" \/ t \in T THEN (IF neg THEN Ignored ELSE All)
    ELSE IF neg THEN All ELSE Ignored

NameTagged == expr.op = "parsed" /\ ParseFileName(expr.name).tag # ""

\* C32: for a file named _<os> with os in UnixLike, Parse returns the value of
\* <os> AND-ed with the header expression, and without a header directive the
\* value of the atom <os> alone (Supported when os is the target OS).
C32_NameTag ==
    NameTagged =>
        /\ expr.src \notin {NoHeader, BadHeader} =>
              expr.result = handleAndExpr(
                  handleTagExpr(ParseFileName(expr.name).tag, FALSE, expr.goos, expr.buildtags),
                  parseTagExpr(expr.src, FALSE, expr.goos, expr.buildtags), expr.goos)
        /\ expr.src = NoHeader =>
              expr.result = handleTagExpr(ParseFileName(expr.name).tag, FALSE, expr.goos,
                                          expr.buildtags)

\* loadPkg returned for a package outside the standard library
LoadedPkg == expr.op = "loaded" /\ ~expr.isStd /\ ~expr.pkg.panic

\* the files with a Platforms constraint that names platform o
GatedBy(o) ==
    {i \in DOMAIN expr.files : expr.files[i].tags.kind = "Platforms" /\ o \in expr.files[i].tags.os}

\* the files with the constraint All or Supported
AlwaysBuilt ==
    {i \in DOMAIN expr.files : expr.files[i].kind # "ignored" /\ expr.files[i].tags \in {All, Supported}}

\* the BuildConfigs that list platform o
ListedIn(o) ==
    {b \in DOMAIN expr.pkg.Builds :
        \E k \in DOMAIN expr.pkg.Builds[b].Platforms : expr.pkg.Builds[b].Platforms[k] = o}

Gating == {o \in {Ranking[i] : i \in DOMAIN Ranking} : GatedBy(o) # {}}
RankIn(o) == CHOOSE i \in DOMAIN Ranking : Ranking[i] = o

\* C33: for a package outside the standard library, every platform of the
\* ranking that gates a file is listed in exactly one BuildConfig, whose files
\* are the Platforms-gated files naming that platform and the always-build
\* files; two such platforms share a BuildConfig exactly when the same gated
\* files name them; the non-default BuildConfigs are in ranking order of their
\* first platform.
C33_Candidates ==
    LoadedPkg =>
        /\ \A o \in Gating :
              /\ Cardinality(ListedIn(o)) = 1
              /\ \A b \in ListedIn(o) : expr.pkg.Builds[b].Files = GatedBy(o) \cup AlwaysBuilt
        /\ \A o1 \in Gating : \A o2 \in Gating :
              ListedIn(o1) = ListedIn(o2) <=> GatedBy(o1) = GatedBy(o2)
        /\ \A b \in 2..Len(expr.pkg.Builds) :
              /\ expr.pkg.Builds[b].Platforms # <<>>
              /\ b > 2 => RankIn(expr.pkg.Builds[b - 1].Platforms[1])
                              < RankIn(expr.pkg.Builds[b].Platforms[1])

\* two platforms share one candidate, another platform has its own, and a
\* platform is listed in the default BuildConfig
C33_Witness ==
    /\ LoadedPkg
    /\ \E o1 \in Gating : \E o2 \in Gating : o1 # o2 /\ ListedIn(o1) # ListedIn(o2)
    /\ \E o \in Gating : ListedIn(o) = {1} \/ \E o2 \in Gating : o2 # o /\ ListedIn(o) = ListedIn(o2)

\* the refresh loop is about to call Handle.Refresh on a dirty package whose
\* handle has a candidate index greater than 0
DirtyPinned ==
    /\ InRefresh /\ ask = NoNeed
    /\ handles[RefreshSeq[idx]].buildIdx > 0
    /\ pkgs[RefreshSeq[idx]].dirty
    /\ ~(~pkgs[RefreshSeq[idx]].firstLoad /\ Goroot(RefreshSeq[idx]))

\* C34: the assertion "pinned package was marked dirty" of Handle.Refresh is
\* never reached: in every load, a package whose Handle has a candidate index
\* greater than 0 is not dirty when it is refreshed.
C34_NeverDirty == [][~(DirtyPinned /\ pc' = "panic")]_vars

\* C35: no Handle is marked incomplete by a parent while it is patched, on
\* the first walk or on a walk after a reload, so neither the assertion of
\* port ("package is claimed to be patchable but has bad parent") nor that of
\* Port ("trying to port package that already has patch associated with it")
\* is reached.
C35_NeverFlagged == \A p \in Pkgs : ~(handles[p].patched /\ handles[p].incomplete)

\* a patched package that a parent, which is neither patched nor exhausted,
\* blamed in the errors it still holds
C35_Witness ==
    /\ pc = "port"
    /\ \E p \in Pkgs :
          /\ handles[p].patched /\ ~handles[p].incomplete
          /\ \E q \in pkgs[p].parents :
                /\ ~handles[q].patched /\ ~handles[q].exhausted
                /\ handles[q].errs \in DOMAIN tc /\ p \in tc[handles[q].errs].imps

\* C36: once the pin of a module has imported = true it keeps it for the rest
\* of the run, also when pin is called for another package of the module and
\* across reloads.
C36_ImportedKept ==
    [][\A m \in NonMainMods : pins[m].imported => pins'[m].imported]_vars

\* Port returns for p with a derived BuildConfig appended, checked clean and
\* accepted by validate
DerivedAccepted(p) ==
    /\ PortCall(p)
    /\ Len(pkgs'[p].derived) > Len(pkgs[p].derived)
    /\ handles'[p].patched /\ ~handles[p].patched

\* C37: once the substitution phase has appended a derived BuildConfig that
\* type-checks and passes validate, the candidate index of the Handle is the
\* index of the derived BuildConfig, and the typed view is that of the derived
\* configuration.
C37_DerivedSelected ==
    [][\A p \in Pkgs :
          DerivedAccepted(p) =>
              /\ handles'[p].buildIdx = BuildsLen(Post, p) - 1
              /\ handles'[p].types[2] = BuildAt(Post, p, BuildsLen(Post, p) - 1)]_vars

\* Port on p flags its import c incomplete and returns without reload or error
Flags(p, c) ==
    /\ PortCall(p) /\ pc' = "port"
    /\ c \in Imports(p) /\ handles'[c].incomplete /\ ~handles[c].incomplete

\* c is flagged and the walk has not reached it
Waiting(c) == pc = "port" /\ handles[c].incomplete /\ c \notin PortedBefore /\ ~AtPort(c)

\* C38 as stated: when Port on P flags an import C incomplete and returns
\* without reload or error, Port is invoked on C later in the same walk with
\* the flag still set: C comes later in the walk, and until the walk reaches C
\* it goes on and the flag stays.
C38_SameWalk ==
    [][\A c \in Pkgs :
          /\ (\E p \in Pkgs : Flags(p, c)) => c \in InWalk \ (PortedBefore \cup {PortSeq[idx]})
          /\ Waiting(c) => pc' = "port" /\ handles'[c].incomplete]_vars

\* C38: C comes later in the walk and the flag stays set as long as the walk
\* goes on, so Port is invoked on C with the flag set if the walk reaches C; a
\* Port call on a package between P and C may end the walk before with a
\* reload or an error.
C38_WalkOrEnd ==
    [][\A c \in Pkgs :
          /\ (\E p \in Pkgs : Flags(p, c)) => c \in InWalk \ (PortedBefore \cup {PortSeq[idx]})
          /\ Waiting(c) =>
                /\ pc' \in {"port", "load", "error"}
                /\ pc' = "port" => handles'[c].incomplete /\ idx' <= CHOOSE i \in 1..Len(PortSeq) : PortSeq[i] = c]_vars

\* Port is about to be invoked on a package a parent flagged in this walk
C38_Witness ==
    /\ InPort /\ ask = NoNeed /\ idx > 1
    /\ handles[PortSeq[idx]].incomplete
    /\ ~handles[PortSeq[idx]].exhausted /\ ~handles[PortSeq[idx]].patched

\* the importer of a type check of p finds every import (errors.go 99-128)
Importable(p) == \A q \in Imports(p) : handles[q].reg /\ handles[q].types # NilView

\* the sanity check of the refresh loop on a GOROOT package (main2.go 57-59)
GorootChanged ==
    /\ InRefresh
    /\ ~pkgs[RefreshSeq[idx]].firstLoad /\ Goroot(RefreshSeq[idx])
    /\ pkgs[RefreshSeq[idx]].dirty \/ pkgs[RefreshSeq[idx]].depDirty

\* C39: whenever a package is type-checked, by Refresh, by Port, by the retag
\* and substitution loops or as a parent by validate, every package it imports
\* has a registered Handle with a typed view, so the importer's assertions are
\* never reached: a run panics only in the checks of the refresh loop.
C39_ImportsTyped ==
    [][/\ InRefresh => Importable(RefreshSeq[idx])
       /\ pc = "port" => \A p \in InWalk : Importable(p)
       /\ pc' = "panic" => pc = "refresh" /\ (DirtyPinned \/ GorootChanged)]_vars

\* after a reload, Refresh is about to type-check a package that has imports
C39_Witness ==
    /\ InRefresh /\ ask = NoNeed
    /\ \E m \in NonMainMods : reloads[m] > 0
    /\ Imports(RefreshSeq[idx]) # {}
    /\ pkgs[RefreshSeq[idx]].dirty \/ pkgs[RefreshSeq[idx]].depDirty
    /\ handles[RefreshSeq[idx]].buildIdx = 0

\* run has returned nil or an error
Returned == pc \in {"done", "error"}

\* run is over: it returned, or one of its sanity checks stopped the process
Ended == Returned \/ pc = "panic"

=============================================================================
